---- MODULE Spec2Model ----
(***************************************************************************)
(* Query understanding and retrieval routing of the product chatbot        *)
(* (retrieval_manager.py: RetrievalManager).                               *)
(*                                                                         *)
(* A Python str is modelled as the sequence of its character codes, so     *)
(* that substring tests, case folding, word boundaries and the price       *)
(* regular expressions are computed character by character.  The comment   *)
(* under a sequence of codes gives the text it stands for.                 *)
(***************************************************************************)
EXTENDS Integers, Sequences, FiniteSets, TLC

VARIABLES filterable_metadata, pc, query, filters, where_filter,
          cleaned_query, target_collections

\* search: the store and the hash seed of the process, the locals of the
\* call, the calls made to the provider and to the store, and what the call
\* in progress is compared with
VARIABLES store, hash_seed, embedding_query, query_embedding, embed_calls,
          store_calls, results, got, done, entry, previous

\* ingestion: the two data files and the documents prepared from them
VARIABLES products_file, reviews_file, product_documents, review_documents

searchVars == <<store, hash_seed, embedding_query, query_embedding, embed_calls,
                store_calls, results, got, done, entry, previous>>

\* the chatbot: the history of the chat, the locals of the call of respond in
\* progress, the calls it made, and the history it was called with
VARIABLES chat_history, message, moderation, is_safe, search_results, retrieved_docs,
          response, docs_for_display, calls, chat_entry

baseVars == <<filterable_metadata, query, filters, where_filter, cleaned_query,
              target_collections>>

ingestVars == <<products_file, reviews_file, product_documents, review_documents>>

chatVars == <<chat_history, message, moderation, is_safe, search_results, retrieved_docs,
              response, docs_for_display, calls, chat_entry>>

\* the splitter: the arguments of the call, the function called, the locals
\* of the _character_split in progress with the passes its loop has made, and
\* what the recursive_split in progress has still to do: the texts to pass to
\* _character_split and the chunks it returns after that
VARIABLES text, chunk_size, chunk_overlap, split_fn, split_text, start, chunks,
          iterations, pending

splitVars == <<text, chunk_size, chunk_overlap, split_fn, split_text, start, chunks,
               iterations, pending>>

\* the vector database: the collections the Chroma client holds with their
\* records, the arguments and the loop position of the populate_collection in
\* progress, the calls of collection.add it made, the database as the call
\* found it, and where the call returns to
VARIABLES stored, collection_name, documents, batch_start, attempts, stored_entry,
          return_to

populateVars == <<stored, collection_name, documents, batch_start, attempts,
                  stored_entry, return_to>>

vars == <<filterable_metadata, pc, query, filters, where_filter,
          cleaned_query, target_collections, searchVars, ingestVars, chatVars,
          splitVars, populateVars>>

Range(s) == { s[i] : i \in DOMAIN s }

\* ------------------------------------------------------------------ bounds

\* The longest query is MaxPhrases phrases of Phrases joined by single spaces.
MaxPhrases == 2

\* ------------------------------------------------------------- characters

IsUpper(c) == c \in 65..90

IsDigit(c) == c \in 48..57

\* \s of the re module on str, restricted to ASCII
IsSpace(c) == c \in {9, 10, 11, 12, 13, 28, 29, 30, 31, 32}

\* \w of the re module on str, restricted to ASCII
IsWordChar(c) == IsDigit(c) \/ c \in 65..90 \/ c \in 97..122 \/ c = 95

LowerChar(c) == IF IsUpper(c) THEN c + 32 ELSE c

\* str.lower()
lower(s) == [i \in 1..Len(s) |-> LowerChar(s[i])]

\* s occurs in t starting at position i
OccursAt(s, t, i) ==
    /\ i >= 1
    /\ i + Len(s) - 1 <= Len(t)
    /\ \A j \in 1..Len(s) : t[i + j - 1] = s[j]

\* s occurs in t starting at position i, letter case ignored (re.IGNORECASE)
OccursAtIgnoreCase(s, t, i) ==
    /\ i >= 1
    /\ i + Len(s) - 1 <= Len(t)
    /\ \A j \in 1..Len(s) : LowerChar(t[i + j - 1]) = LowerChar(s[j])

\* Python's `s in t` on two str
Contains(s, t) == \E i \in 1..(Len(t) - Len(s) + 1) : OccursAt(s, t, i)

\* any(k in t for k in ks)
AnyContained(ks, t) == \E n \in 1..Len(ks) : Contains(ks[n], t)

\* the first position at or after p whose character is not a digit
DigitsEnd(t, p) ==
    CHOOSE k \in p..(Len(t) + 1) :
        /\ k = Len(t) + 1 \/ ~IsDigit(t[k])
        /\ \A m \in p..(k - 1) : IsDigit(t[m])

\* the first position at or after p whose character is not white space
SpacesEnd(t, p) ==
    CHOOSE k \in p..(Len(t) + 1) :
        /\ k = Len(t) + 1 \/ ~IsSpace(t[k])
        /\ \A m \in p..(k - 1) : IsSpace(t[m])

\* ------------------------------------------------------------ price bounds

\* the alternatives of the two price patterns, in the order written
lt_keywords ==
    << <<117,110,100,101,114>>,
           \* under
       <<108,101,115,115,32,116,104,97,110>>,
           \* less than
       <<98,101,108,111,119>>,
           \* below
       <<109,97,120,32,111,102>>,
           \* max of
       <<36,108,116>> >>
           \* $lt

gt_keywords ==
    << <<111,118,101,114>>,
           \* over
       <<109,111,114,101,32,116,104,97,110>>,
           \* more than
       <<97,98,111,118,101>>,
           \* above
       <<109,105,110,32,111,102>>,
           \* min of
       <<36,103,116>> >>
           \* $gt

\* \s*\$?(\d+\.?\d*) matched at position p: where group 1 starts, 0 if no match.
\* \s* and \$? are greedy and nothing they could give back can start a
\* number, so the only match skips all white space and one dollar sign.
AmountStart(t, p) ==
    LET a == SpacesEnd(t, p)
        b == IF a <= Len(t) /\ t[a] = 36 THEN a + 1 ELSE a
    IN  IF b <= Len(t) /\ IsDigit(t[b]) THEN b ELSE 0

\* the position after group 1, (\d+\.?\d*), which starts at b
AmountEnd(t, b) ==
    LET d == DigitsEnd(t, b)
    IN  IF d <= Len(t) /\ t[d] = 46 THEN DigitsEnd(t, d + 1) ELSE d

\* value of a sequence of decimal digits
RECURSIVE DecimalValue(_)
DecimalValue(ds) ==
    IF ds = <<>> THEN 0
    ELSE 10 * DecimalValue(SubSeq(ds, 1, Len(ds) - 1)) + (ds[Len(ds)] - 48)

RECURSIVE StripTrailingZeros(_)
StripTrailingZeros(ds) ==
    IF ds # <<>> /\ ds[Len(ds)] = 48
    THEN StripTrailingZeros(SubSeq(ds, 1, Len(ds) - 1))
    ELSE ds

\* float(text) for text matching \d+\.?\d*: the number as its integer part
\* and its significant fractional digits, so that 300, 300. and 300.0 are
\* one value and 99.5 differs from 99
float(t) ==
    LET d == DigitsEnd(t, 1)
    IN  [units |-> DecimalValue(SubSeq(t, 1, d - 1)),
         frac  |-> StripTrailingZeros(SubSeq(t, d + 1, Len(t)))]

\* the whole pattern matched at position i: the alternatives are tried in
\* order, the first whose keyword and amount both match is taken.
\* The result is the start of group 1, 0 if the pattern does not match at i.
PatternAt(kws, t, i) ==
    LET ok(n) == /\ OccursAtIgnoreCase(kws[n], t, i)
                 /\ AmountStart(t, i + Len(kws[n])) # 0
    IN  IF \E n \in 1..Len(kws) : ok(n)
        THEN LET n == CHOOSE n \in 1..Len(kws) :
                          ok(n) /\ \A m \in 1..(n - 1) : ~ok(m)
             IN  AmountStart(t, i + Len(kws[n]))
        ELSE 0

\* pattern.search(t): the leftmost position where the pattern matches, 0 if none
PatternSearch(kws, t) ==
    IF \E i \in 1..Len(t) : PatternAt(kws, t, i) # 0
    THEN CHOOSE i \in 1..Len(t) :
             PatternAt(kws, t, i) # 0 /\ \A k \in 1..(i - 1) : PatternAt(kws, t, k) = 0
    ELSE 0

\* match.group(1) of the match found at position i
PatternGroup1(kws, t, i) ==
    LET b == PatternAt(kws, t, i)
    IN  SubSeq(t, b, AmountEnd(t, b) - 1)

\* --------------------------------------------------------- filter terms

\* One element of the list `filters`: {"price": {"$lt": x}}, {"price": {"$gt": x}},
\* {"brand": b} or {"category": c}.
NoNumber == [units |-> 0, frac |-> <<>>]

PriceTerm(op, price) == [field |-> "price", op |-> op, num |-> price, str |-> <<>>]

BrandTerm(brand) == [field |-> "brand", op |-> "=", num |-> NoNumber, str |-> brand]

CategoryTerm(category) ==
    [field |-> "category", op |-> "=", num |-> NoNumber, str |-> category]

\* One price pattern applied to the query: at most one term, from the
\* leftmost match.
PriceFilter(op, kws, t) ==
    LET i == PatternSearch(kws, t)
    IN  IF i # 0
        THEN << PriceTerm(op, float(PatternGroup1(kws, t, i))) >>
        ELSE <<>>

\* the loop over price_patterns: "lt" first, then "gt"
price_filters(t) ==
    PriceFilter("$lt", lt_keywords, t) \o PriceFilter("$gt", gt_keywords, t)

\* ------------------------------------------------------------ vocabulary

\* self.filterable_metadata: None, or the mapping decoded from
\* filterable_metadata.json, of which only the keys "brands" and
\* "categories" are read.
NoneMetadata == [isNone |-> TRUE, keys |-> {}, brands |-> <<>>, categories |-> <<>>]

Metadata(ks, bs, cs) == [isNone |-> FALSE, keys |-> ks, brands |-> bs, categories |-> cs]

\* `if self.filterable_metadata:` : None and the empty mapping are false
Truthy(meta) == ~meta.isNone /\ meta.keys # {}

\* self.filterable_metadata.get("brands", [])
GetBrands(meta) == IF "brands" \in meta.keys THEN meta.brands ELSE <<>>

\* self.filterable_metadata.get("categories", [])
GetCategories(meta) == IF "categories" \in meta.keys THEN meta.categories ELSE <<>>

\* sorted(names, key=len, reverse=True): longest first, names of one length
\* keep their order (the sort is stable)
RECURSIVE sorted_by_len_desc(_)
sorted_by_len_desc(names) ==
    IF names = <<>> THEN <<>>
    ELSE LET rest == sorted_by_len_desc(SubSeq(names, 1, Len(names) - 1))
             x    == names[Len(names)]
             k    == Cardinality({i \in 1..Len(rest) : Len(rest[i]) >= Len(x)})
         IN  SubSeq(rest, 1, k) \o <<x>> \o SubSeq(rest, k + 1, Len(rest))

\* ----------------------------------------------------------------- brand

\* \b at position p of t: exactly one of the characters before and at p is
\* a word character (outside the text counts as not a word character)
WordBoundary(t, p) ==
    (p - 1 >= 1 /\ IsWordChar(t[p - 1])) # (p <= Len(t) /\ IsWordChar(t[p]))

\* re.search(r'\b' + re.escape(brand) + r'\b', t, re.IGNORECASE)
BrandSearch(brand, t) ==
    \E i \in 1..(Len(t) + 1) :
        /\ OccursAtIgnoreCase(brand, t, i)
        /\ WordBoundary(t, i)
        /\ WordBoundary(t, i + Len(brand))

\* BrandScan without the sort: the brands in the order of the vocabulary
BrandScan_unsorted(meta) == GetBrands(meta)

\* the order in which the brands are tried
BrandScan(meta) == sorted_by_len_desc(GetBrands(meta))

\* the loop over brands: the first brand of the scan found in the query
brand_filters(meta, t) ==
    LET brands == BrandScan(meta)
        hit(n) == BrandSearch(brands[n], t)
    IN  IF \E n \in 1..Len(brands) : hit(n)
        THEN LET n == CHOOSE n \in 1..Len(brands) :
                          hit(n) /\ \A m \in 1..(n - 1) : ~hit(m)
             IN  << BrandTerm(brands[n]) >>
        ELSE <<>>

\* -------------------------------------------------------------- category

priority_terms ==
    << <<108,97,112,116,111,112>>,
           \* laptop
       <<99,111,109,112,117,116,101,114>>,
           \* computer
       <<112,99>> >>
           \* pc

ComputersMarker ==
    <<67,111,109,112,117,116,101,114,115,32,97,110,100,32,76,97,112,116,111,112,115>>
        \* Computers and Laptops

\* 1. Priority check: the first vocabulary category containing the marker
priority_filters(meta, t) ==
    LET cats == GetCategories(meta)
        hit(n) == Contains(ComputersMarker, cats[n])
    IN  IF AnyContained(priority_terms, lower(t)) /\ \E n \in 1..Len(cats) : hit(n)
        THEN LET n == CHOOSE n \in 1..Len(cats) :
                          hit(n) /\ \A m \in 1..(n - 1) : ~hit(m)
             IN  << CategoryTerm(cats[n]) >>
        ELSE <<>>

ComputersAndLaptops ==
    <<67,111,109,112,117,116,101,114,115,32,97,110,100,32,76,97,112,116,111,112,115>>
        \* Computers and Laptops

CamerasAndCamcorders ==
    <<67,97,109,101,114,97,115,32,97,110,100,32,67,97,109,99,111,114,100,101,114,115>>
        \* Cameras and Camcorders

GamingConsoles ==
    <<71,97,109,105,110,103,32,67,111,110,115,111,108,101,115,32,97,110,100,32,65,99,99,101,115,115,111,114,105,101,115>>
        \* Gaming Consoles and Accessories

Smartphones ==
    <<83,109,97,114,116,112,104,111,110,101,115,32,97,110,100,32,65,99,99,101,115,115,111,114,105,101,115>>
        \* Smartphones and Accessories

AudioEquipment ==
    <<65,117,100,105,111,32,69,113,117,105,112,109,101,110,116>>
        \* Audio Equipment

Televisions ==
    <<84,101,108,101,118,105,115,105,111,110,115,32,97,110,100,32,72,111,109,101,32,84,104,101,97,116,101,114,32,83,121,115,116,101,109,115>>
        \* Televisions and Home Theater Systems


CATEGORY_SYNONYMS ==
    << [category |-> ComputersAndLaptops,
        synonyms |->
            << <<108,97,112,116,111,112>>,
                   \* laptop
               <<108,97,112,116,111,112,115>>,
                   \* laptops
               <<99,111,109,112,117,116,101,114>>,
                   \* computer
               <<110,111,116,101,98,111,111,107>>,
                   \* notebook
               <<117,108,116,114,97,98,111,111,107>>,
                   \* ultrabook
               <<99,104,114,111,109,101,98,111,111,107>>,
                   \* chromebook
               <<80,67>>,
                   \* PC
               <<100,101,115,107,116,111,112>>,
                   \* desktop
               <<119,111,114,107,115,116,97,116,105,111,110>>,
                   \* workstation
               <<103,97,109,105,110,103,32,108,97,112,116,111,112>> >>],
                   \* gaming laptop
       [category |-> CamerasAndCamcorders,
        synonyms |->
            << <<99,97,109,101,114,97>>,
                   \* camera
               <<99,97,109,101,114,97,115>>,
                   \* cameras
               <<99,97,109,99,111,114,100,101,114>>,
                   \* camcorder
               <<112,104,111,116,111>>,
                   \* photo
               <<118,105,100,101,111,32,99,97,109,101,114,97>> >>],
                   \* video camera
       [category |-> GamingConsoles,
        synonyms |->
            << <<99,111,110,115,111,108,101>>,
                   \* console
               <<103,97,109,105,110,103>>,
                   \* gaming
               <<103,97,109,101,115>>,
                   \* games
               <<99,111,110,116,114,111,108,108,101,114>> >>],
                   \* controller
       [category |-> Smartphones,
        synonyms |->
            << <<112,104,111,110,101>>,
                   \* phone
               <<115,109,97,114,116,112,104,111,110,101>>,
                   \* smartphone
               <<109,111,98,105,108,101>>,
                   \* mobile
               <<99,97,115,101>>,
                   \* case
               <<99,104,97,114,103,101,114>> >>],
                   \* charger
       [category |-> AudioEquipment,
        synonyms |->
            << <<97,117,100,105,111>>,
                   \* audio
               <<115,112,101,97,107,101,114>>,
                   \* speaker
               <<104,101,97,100,112,104,111,110,101>>,
                   \* headphone
               <<101,97,114,98,117,100>>,
                   \* earbud
               <<115,111,117,110,100>> >>],
                   \* sound
       [category |-> Televisions,
        synonyms |->
            << <<116,118>>,
                   \* tv
               <<116,101,108,101,118,105,115,105,111,110>>,
                   \* television
               <<104,111,109,101,32,116,104,101,97,116,101,114>>,
                   \* home theater
               <<115,111,117,110,100,98,97,114>>,
                   \* soundbar
               <<116,118,115>> >>] >>
                   \* tvs

priority_categories == {ComputersAndLaptops, CamerasAndCamcorders, Smartphones}

\* len(syn.split()): the number of maximal runs of characters that are not
\* white space
WordCount(s) ==
    Cardinality({i \in 1..Len(s) : ~IsSpace(s[i]) /\ (i = 1 \/ IsSpace(s[i - 1]))})

\* Phase 1: the priority categories one of whose multi-word synonyms is in
\* the lowercased query
MultiWordMatches(t) ==
    { e.category : e \in
        { e \in {CATEGORY_SYNONYMS[n] : n \in 1..Len(CATEGORY_SYNONYMS)} :
            /\ e.category \in priority_categories
            /\ \E k \in 1..Len(e.synonyms) :
                   WordCount(e.synonyms[k]) > 1 /\ Contains(e.synonyms[k], lower(t)) } }

\* Phase 2: all the categories one of whose single-word synonyms is in the
\* lowercased query
SingleWordMatches(t) ==
    { e.category : e \in
        { e \in {CATEGORY_SYNONYMS[n] : n \in 1..Len(CATEGORY_SYNONYMS)} :
            \E k \in 1..Len(e.synonyms) :
                WordCount(e.synonyms[k]) = 1 /\ Contains(e.synonyms[k], lower(t)) } }

\* matched_categories with Phase 2 run whatever Phase 1 found
matched_categories_both(t) == MultiWordMatches(t) \cup SingleWordMatches(t)

\* matched_categories after the two phases
matched_categories(t) ==
    IF MultiWordMatches(t) # {} THEN MultiWordMatches(t) ELSE SingleWordMatches(t)

\* The orders in which `for category in matched_categories` may visit a set
\* of str: the iteration order of a Python set of str depends on the hash
\* seed of the process.
IterationOrders(S) ==
    { s \in [1..Cardinality(S) -> S] :
        \A i, j \in 1..Cardinality(S) : i # j => s[i] # s[j] }

\* the category terms appended for the matched categories, visited in `order`
synonym_filters(order) == [n \in 1..Len(order) |-> CategoryTerm(order[n])]

\* ------------------------------------------------------- _extract_filters

\* {} (match all)
EmptyFilter == [op |-> "none", terms |-> <<>>]

\* WhereFilter with the terms of two or more filters joined by AND
WhereFilter_and(fs) ==
    IF Len(fs) = 0 THEN EmptyFilter
    ELSE IF Len(fs) > 1 THEN [op |-> "$and", terms |-> fs]
    ELSE [op |-> "term", terms |-> <<fs[1]>>]

\* Construct the final filter dictionary
WhereFilter(fs) ==
    IF Len(fs) = 0 THEN EmptyFilter
    ELSE IF Len(fs) > 1 THEN [op |-> "$or", terms |-> fs]
    ELSE [op |-> "term", terms |-> <<fs[1]>>]

\* the list `filters` at the end of _extract_filters
Filters(meta, t, order) ==
    IF Truthy(meta)
    THEN price_filters(t) \o brand_filters(meta, t) \o priority_filters(meta, t)
             \o synonym_filters(order)
    ELSE price_filters(t)

\* the set iterated at the end of the category search (none when the
\* vocabulary is false)
MatchedSet(meta, t) == IF Truthy(meta) THEN matched_categories(t) ELSE {}

\* CleanedQuery with the deactivated removal of the matched upper-bound
\* phrase switched on
CleanedQuery_stripped(t) ==
    LET i == PatternSearch(lt_keywords, t)
    IN  IF i = 0 THEN t
        ELSE SubSeq(t, 1, i - 1)
                 \o SubSeq(t, AmountEnd(t, PatternAt(lt_keywords, t, i)), Len(t))

\* the second component of the returned pair
CleanedQuery(t) == t

\* ----------------------------------------------------------- _route_query

review_keywords ==
    << <<114,101,118,105,101,119>>,
           \* review
       <<99,117,115,116,111,109,101,114>>,
           \* customer
       <<102,101,101,100,98,97,99,107>>,
           \* feedback
       <<99,111,109,112,108,97,105,110,116,115>>,
           \* complaints
       <<115,97,121,32,97,98,111,117,116>>,
           \* say about
       <<111,112,105,110,105,111,110>>,
           \* opinion
       <<101,120,112,101,114,105,101,110,99,101>> >>
           \* experience

product_keywords ==
    << <<115,112,101,99,115>>,
           \* specs
       <<102,101,97,116,117,114,101,115>>,
           \* features
       <<104,97,118,101>>,
           \* have
       <<97,118,97,105,108,97,98,108,101>>,
           \* available
       <<100,111,32,121,111,117,32,104,97,118,101>>,
           \* do you have
       <<115,112,101,99,105,102,105,99,97,116,105,111,110>>,
           \* specification
       <<116,101,99,104,110,105,99,97,108,32,100,101,116,97,105,108,115>>,
           \* technical details
       <<112,114,105,99,101>>,
           \* price
       <<119,97,114,114,97,110,116,121>> >>
           \* warranty

\* route_query without the default to both collections
route_query_nodefault(t) ==
    LET r == IF AnyContained(review_keywords, lower(t)) THEN <<"reviews">> ELSE <<>>
        p == IF AnyContained(product_keywords, lower(t)) THEN <<"products">> ELSE <<>>
    IN  r \o p

\* the returned list of collection names
route_query(t) ==
    LET r == IF AnyContained(review_keywords, lower(t)) THEN <<"reviews">> ELSE <<>>
        p == IF AnyContained(product_keywords, lower(t)) THEN <<"products">> ELSE <<>>
    IN  IF r \o p = <<>> THEN <<"products", "reviews">> ELSE r \o p

\* ----------------------------------------------------------------- inputs

\* The vocabularies filterable_metadata.json may hold when the manager is
\* constructed.
Brands ==
    << <<83,109,97,114,116,88>>,
           \* SmartX
       <<83,109,97,114,116,88,32,80,114,111>>,
           \* SmartX Pro
       <<84,101,99,104,80,114,111>> >>
           \* TechPro

\* the same brands in another order of the file
BrandsReordered ==
    << <<84,101,99,104,80,114,111>>,
           \* TechPro
       <<83,109,97,114,116,88>>,
           \* SmartX
       <<83,109,97,114,116,88,32,80,114,111>> >>
           \* SmartX Pro

Categories == << AudioEquipment, ComputersAndLaptops >>

Vocabularies ==
    { NoneMetadata,                                      \* file missing or undecodable
      Metadata({}, <<>>, <<>>),                          \* {}
      Metadata({"brands", "categories"}, Brands, Categories),
      Metadata({"brands", "categories"}, BrandsReordered, <<AudioEquipment>>),
      Metadata({"brands"}, Brands, <<>>),                \* no "categories" key
      Metadata({"categories"}, <<>>, Categories),        \* no "brands" key
      Metadata({"brands", "categories"}, <<>>, <<>>) }   \* both lists empty

\* The pieces queries are made of.
Phrases ==
    { <<117,110,100,101,114,32,36,51,48,48>>,
          \* under $300
      <<98,101,108,111,119,32,53,48,48>>,
          \* below 500
      <<84,101,99,104,80,114,111,32,103,97,109,105,110,103,32,108,97,112,116,111,112,115,32,111,118,101,114,32,36,49,48,48,48>>,
          \* TechPro gaming laptops over $1000
      <<117,110,100,101,114,32,36,51,48,48,32,97,110,100,32,111,118,101,114,32,36,49,48,48>>,
          \* under $300 and over $100
      <<76,101,115,115,32,84,104,97,110,32,32,36,57,57,46,53,48>>,
          \* Less Than  $99.50
      <<108,97,112,116,111,112>>,
          \* laptop
      <<80,67>>,
          \* PC
      <<103,97,109,105,110,103,32,108,97,112,116,111,112>>,
          \* gaming laptop
      <<104,111,109,101,32,116,104,101,97,116,101,114>>,
          \* home theater
      <<99,97,109,101,114,97>>,
          \* camera
      <<84,101,99,104,80,114,111>>,
          \* TechPro
      <<115,109,97,114,116,120>>,
          \* smartx
      <<83,109,97,114,116,88,32,80,114,111>>,
          \* SmartX Pro
      <<83,109,97,114,116,88,116,114,97>>,
          \* SmartXtra
      <<102,101,101,100,98,97,99,107>>,
          \* feedback
      <<115,112,101,99,115>> }
          \* specs

\* the phrases of ps joined by single spaces
RECURSIVE Join(_)
Join(ps) ==
    IF ps = <<>> THEN <<>>
    ELSE IF Len(ps) = 1 THEN ps[1]
    ELSE ps[1] \o <<32>> \o Join(Tail(ps))

Queries == { Join(ps) : ps \in UNION { [1..n -> Phrases] : n \in 0..MaxPhrases } }

\* ------------------------------------------------------- the vector store

\* the most records a collection of the store holds
MaxRecords == 9

Collections == {"products", "reviews"}

\* A collection of the store: unknown to the client (get_collection raises),
\* known but answering every query with an error, or answering from its
\* `size` records.
CollectionStates ==
    { [status |-> "missing", size |-> 0],
      [status |-> "faulty", size |-> MaxRecords],
      [status |-> "ok", size |-> MaxRecords] }

Stores == [Collections -> CollectionStates]

\* the categories the stored records carry
StoredCategories ==
    << ComputersAndLaptops, CamerasAndCamcorders, GamingConsoles, Televisions >>

\* The i-th record of collection c.  Product records carry a price, review
\* records do not; `position` stands for the stored vector.
StoredRecord(c, i) ==
    [id       |-> i,
     hasPrice |-> c = "products",
     price    |-> 150 * i,
     brand    |-> Brands[((i - 1) % Len(Brands)) + 1],
     category |-> StoredCategories[((i - 1) % Len(StoredCategories)) + 1],
     position |-> (3 * i) % 7]

\* one term of a predicate against the metadata of a record; a field the
\* record does not carry matches nothing
TermMatches(term, r) ==
    IF term.field = "price"
    THEN /\ r.hasPrice
         /\ IF term.op = "$lt"
            THEN \/ r.price < term.num.units
                 \/ r.price = term.num.units /\ term.num.frac # <<>>
            ELSE r.price > term.num.units
    ELSE IF term.field = "brand" THEN r.brand = term.str
    ELSE r.category = term.str

\* where=None
None == [op |-> "None", terms |-> <<>>]

\* the `where` argument against the metadata of a record
WhereMatches(w, r) ==
    IF w.op = "$or" THEN \E n \in DOMAIN w.terms : TermMatches(w.terms[n], r)
    ELSE IF w.op = "$and" THEN \A n \in DOMAIN w.terms : TermMatches(w.terms[n], r)
    ELSE IF w.op = "term" THEN TermMatches(w.terms[1], r)
    ELSE TRUE

\* the dissimilarity of a record and the query vector
Distance(v, r) ==
    IF v[1] >= r.position THEN v[1] - r.position ELSE r.position - v[1]

\* the rank of a record in an answer: by distance, then by id
RankKey(v, r) == Distance(v, r) * (MaxRecords + 2) + r.id

\* the records of S, nearest first
Ranked(S, v) ==
    [n \in 1..Cardinality(S) |->
        CHOOSE r \in S : Cardinality({ s \in S : RankKey(v, s) < RankKey(v, r) }) = n - 1]

\* collection.query(query_embeddings=[v], n_results=k, where=w) on a
\* collection of `size` records: the k nearest records that satisfy w
Nearest(c, size, v, k, w) ==
    LET S == { r \in { StoredRecord(c, i) : i \in 1..size } : WhereMatches(w, r) }
        ranked == Ranked(S, v)
        n == IF Len(ranked) < k THEN Len(ranked) ELSE k
    IN  [i \in 1..n |-> [id |-> ranked[i].id, distance |-> Distance(v, ranked[i])]]

\* -------------------------------------------------- the embedding provider

RECURSIVE SumCodes(_)
SumCodes(t) ==
    IF t = <<>> THEN 0
    ELSE IF Len(t) = 1 THEN t[1]
    ELSE SumCodes(SubSeq(t, 1, Len(t) \div 2))
             + SumCodes(SubSeq(t, Len(t) \div 2 + 1, Len(t)))

\* self.model.encode(text).tolist(): a vector that depends on the text only
Embed(t) == << SumCodes(t) % 7 >>

\* no vector yet
NoVector == <<>>

\* ------------------------------------------------------------------ search

\* The order in which `for category in matched_categories` visits the set in
\* this process: the hash seed is drawn once per process, so one manager
\* visits equal sets in one order.
CategoryIndex(cat) ==
    CHOOSE n \in DOMAIN CATEGORY_SYNONYMS : CATEGORY_SYNONYMS[n].category = cat

SeededOrder(seed, S) ==
    CHOOSE s \in IterationOrders(S) :
        \A i, j \in DOMAIN s :
            i < j => IF seed = 0
                     THEN CategoryIndex(s[i]) < CategoryIndex(s[j])
                     ELSE CategoryIndex(s[i]) > CategoryIndex(s[j])

HashSeeds == {0, 1}

\* InitialFilters with the terms of the previous call kept
InitialFilters_carried(last) == last

\* filters = []
InitialFilters(last) == <<>>

\* embedding_query = cleaned_query if cleaned_query else query
EmbeddingQuery(cleaned, q) == IF cleaned # <<>> THEN cleaned ELSE q

\* NResults with the two caps exchanged
NResults_swapped(c) == IF c = "products" THEN 8 ELSE 5

\* n_results = 5 if collection_name == "products" else 8
NResults(c) == IF c = "products" THEN 5 ELSE 8

\* WhereArg passing the extracted filter in every case
WhereArg_always(w) == w

\* where=where_filter if where_filter else None
WhereArg(w) == IF w # EmptyFilter THEN w ELSE None

\* no entry for the collection in `results`
Absent == [kind |-> "absent", items |-> <<>>]

\* results[collection_name] = []
EmptyList == [kind |-> "list", items |-> <<>>]

\* results[collection_name] = retrieved
QueryResult(items) == [kind |-> "QueryResult", items |-> items]

\* results = {}
NoResults == [c \in Collections |-> Absent]

Keys(res) == { c \in Collections : res[c] # Absent }

\* the vocabulary and the store as the call in progress found them; no call
\* is in progress
NoEntry ==
    [filterable_metadata |-> NoneMetadata,
     store |-> [c \in Collections |-> [status |-> "missing", size |-> 0]]]

\* nothing to compare the call in progress with
NoPrevious ==
    [valid |-> FALSE, query |-> <<>>, results |-> NoResults, store_calls |-> <<>>]

\* HandleQueryError letting the exception leave search
HandleQueryError_propagates(res, c) == [results |-> res, raised |-> TRUE]

\* HandleQueryError recording nothing for the collection
HandleQueryError_skips(res, c) == [results |-> res, raised |-> FALSE]

\* HandleQueryError starting the mapping again with the failed collection
HandleQueryError_resets(res, c) ==
    [results |-> [NoResults EXCEPT ![c] = EmptyList], raised |-> FALSE]

\* HandleQueryError emptying every entry recorded before the failure
HandleQueryError_clears(res, c) ==
    [results |-> [x \in Collections |->
                     IF x = c \/ res[x] # Absent THEN EmptyList ELSE Absent],
     raised |-> FALSE]

\* except Exception: results[collection_name] = []
HandleQueryError(res, c) ==
    [results |-> [res EXCEPT ![c] = EmptyList], raised |-> FALSE]

\* the arguments of collection.query for collection c
QueryCall(c, v, w) ==
    [collection |-> c, query_embeddings |-> <<v>>, n_results |-> NResults(c),
     where |-> WhereArg(w)]

\* one pass of the loop body for collection c, as a whole
LoopBody(res, c, st, v, w) ==
    IF st[c].status # "ok" THEN HandleQueryError(res, c)
    ELSE LET call == QueryCall(c, v, w)
         IN  [results |-> [res EXCEPT ![c] =
                             QueryResult(Nearest(c, st[c].size, call.query_embeddings[1],
                                                 call.n_results, call.where))],
              raised |-> FALSE]

\* `results` after the loop has visited the collections of cs in order
RECURSIVE LoopResults(_, _, _, _, _)
LoopResults(res, cs, st, v, w) ==
    IF cs = <<>> THEN res
    ELSE LoopResults(LoopBody(res, Head(cs), st, v, w).results, Tail(cs), st, v, w)


\* ---------------------------------------------------------------- ingestion

\* The values of a decoded JSON object: a key the object does not have, null,
\* a string, a number, a list of strings.
Missing == [kind |-> "missing", s |-> <<>>, n |-> 0, list |-> <<>>]

Null == [kind |-> "null", s |-> <<>>, n |-> 0, list |-> <<>>]

Text(s) == [kind |-> "str", s |-> s, n |-> 0, list |-> <<>>]

Number(n) == [kind |-> "num", s |-> <<>>, n |-> n, list |-> <<>>]

List(l) == [kind |-> "list", s |-> <<>>, n |-> 0, list |-> l]

\* obj.get(key): None for a key the object does not have
Get(obj, key) == IF obj[key] = Missing THEN Null ELSE obj[key]

\* obj.get(key, default)
GetOr(obj, key, default) == IF obj[key] = Missing THEN default ELSE obj[key]

\* `not v` for the values above
Falsy(v) ==
    \/ v.kind \in {"missing", "null"}
    \/ v.kind = "str" /\ v.s = <<>>
    \/ v.kind = "num" /\ v.n = 0
    \/ v.kind = "list" /\ v.list = <<>>

RECURSIVE Digits(_)
Digits(n) == IF n < 10 THEN <<48 + n>> ELSE Digits(n \div 10) \o <<48 + (n % 10)>>

\* ', '.join(l)
RECURSIVE JoinComma(_)
JoinComma(l) ==
    IF l = <<>> THEN <<>>
    ELSE IF Len(l) = 1 THEN l[1]
    ELSE l[1] \o <<44,32>> \o JoinComma(Tail(l))
        \* , 

\* {v} in an f-string, for a string, a number and None
Format(v) ==
    IF v.kind = "str" THEN v.s
    ELSE IF v.kind = "num" THEN Digits(v.n)
    ELSE <<78,111,110,101>>
        \* None

ProductFields ==
    {"name", "model_number", "category", "brand", "price", "features", "description"}

MetadataKeys ==
    {"chunk_type", "product_name", "model_number", "category", "brand", "price", "rating"}

\* a file that does not exist, a file that is not JSON, a file holding data
MissingFile == [status |-> "missing", data |-> <<>>]

UndecodableFile == [status |-> "undecodable", data |-> <<>>]

JsonFile(data) == [status |-> "ok", data |-> data]

\* metadata = {k: v for k, v in metadata.items() if v is not None}
WithoutNone(metadata) ==
    [k \in MetadataKeys |-> IF metadata[k] = Null THEN Missing ELSE metadata[k]]

\* unique_id = f"product-{product['model_number']}"
ProductId(product) == <<112,114,111,100,117,99,116,45>> \o Format(product["model_number"])
    \* product-

\* the text of a product document
ProductText(product) ==
    LET features == GetOr(product, "features", List(<<>>))
        features_text == IF features.kind = "list" THEN JoinComma(features.list) ELSE <<>>
        field(key) == Format(GetOr(product, key, Text(<<>>)))
    IN  <<80,114,111,100,117,99,116,58,32>>
        \* Product: 
            \o field("name")
            \o <<44,32,66,114,97,110,100,58,32>>
                \* , Brand: 
            \o field("brand")
            \o <<44,32,67,97,116,101,103,111,114,121,58,32>>
                \* , Category: 
            \o field("category")
            \o <<46,32,70,101,97,116,117,114,101,115,58,32>>
                \* . Features: 
            \o features_text
            \o <<46,32,68,101,115,99,114,105,112,116,105,111,110,58,32>>
                \* . Description: 
            \o field("description")

\* the metadata of a product document
ProductMetadata(product) ==
    WithoutNone([k \in MetadataKeys |->
        CASE k = "chunk_type"   -> Text(<<112,114,111,100,117,99,116,95,105,110,102,111>>)
            \* product_info
          [] k = "product_name" -> Get(product, "name")
          [] k = "model_number" -> Get(product, "model_number")
          [] k = "category"     -> Get(product, "category")
          [] k = "brand"        -> Get(product, "brand")
          [] k = "price"        -> Get(product, "price")
          [] OTHER              -> Missing])

\* the document appended for one product
ProductDocument(product) ==
    [id |-> ProductId(product),
     text_for_embedding |-> ProductText(product),
     metadata |-> ProductMetadata(product)]

\* product['model_number'] raises KeyError for some product of the file
SomeModelNumberMissing(products_data) ==
    \E i \in DOMAIN products_data : products_data[i]["model_number"] = Missing

\* prepare_product_documents(products_file_path): one document per product of
\* the file in the order of the file; [] when the file is missing or
\* undecodable or any other exception is raised
prepare_product_documents(pfile) ==
    IF pfile.status # "ok" THEN <<>>
    ELSE IF SomeModelNumberMissing(pfile.data) THEN <<>>
    ELSE [i \in DOMAIN pfile.data |-> ProductDocument(pfile.data[i])]

\* product_lookup.get(model_number): the details of the last product of the
\* file with this model_number, None when there is none
ProductLookup(products_data, model_number) ==
    LET hits == { i \in DOMAIN products_data :
                    products_data[i]["model_number"] = model_number }
    IN  IF hits = {} THEN Null
        ELSE LET details == products_data[CHOOSE i \in hits : \A j \in hits : j <= i]
             IN  [kind |-> "product_info",
                  category |-> Get(details, "category"),
                  brand |-> Get(details, "brand"),
                  product_name |-> Get(details, "name")]

\* unique_id = f"review-{review_id}"
ReviewId(review) == <<114,101,118,105,101,119,45>> \o Format(review["review_id"])
    \* review-

\* the document appended for one review of a group
ReviewDocument(review, model_number, product_info) ==
    [id |-> ReviewId(review),
     text_for_embedding |-> Format(GetOr(review, "review", Text(<<>>))),
     metadata |->
        WithoutNone([k \in MetadataKeys |->
            CASE k = "chunk_type"   -> Text(<<114,101,118,105,101,119>>)
                \* review
              [] k = "product_name" -> product_info.product_name
              [] k = "model_number" -> model_number
              [] k = "category"     -> product_info.category
              [] k = "brand"        -> product_info.brand
              [] k = "rating"       -> Get(review, "rating")
              [] OTHER              -> Missing])]

\* the documents of the reviews of one list that have a review_id
RECURSIVE ReviewDocuments(_, _, _)
ReviewDocuments(reviews, model_number, product_info) ==
    IF reviews = <<>> THEN <<>>
    ELSE LET rest == ReviewDocuments(Tail(reviews), model_number, product_info)
         IN  IF Falsy(Get(Head(reviews), "review_id")) THEN rest
             ELSE <<ReviewDocument(Head(reviews), model_number, product_info)>> \o rest

\* the documents of the groups that name a product of the products file
RECURSIVE GroupDocuments(_, _)
GroupDocuments(groups, products_data) ==
    IF groups = <<>> THEN <<>>
    ELSE LET group == Head(groups)
             model_number == Get(group, "model_number")
             product_info == ProductLookup(products_data, model_number)
             rest == GroupDocuments(Tail(groups), products_data)
         IN  IF Falsy(model_number) THEN rest
             ELSE IF product_info = Null THEN rest
             ELSE ReviewDocuments(GetOr(group, "reviews", List(<<>>)).list,
                                  model_number, product_info) \o rest

\* prepare_review_documents(reviews_file_path, products_file_path)
prepare_review_documents(rfile, pfile) ==
    IF pfile.status # "ok" THEN <<>>
    ELSE IF SomeModelNumberMissing(pfile.data) THEN <<>>
    ELSE IF rfile.status # "ok" THEN <<>>
    ELSE GroupDocuments(rfile.data, pfile.data)

\* ------------------------------------------------------------- moderation

\* what ollama.generate(model="llama-guard3", ...) does: it raises, or it
\* returns a mapping without the key "response", or one with the answer
GenerateRaised == [kind |-> "raised", response |-> <<>>]

GenerateNoAnswer == [kind |-> "no response key", response |-> <<>>]

GenerateAnswer(t) == [kind |-> "answer", response |-> t]

\* str.strip(): leading and trailing white space removed
RECURSIVE lstrip(_)
lstrip(s) == IF s # <<>> /\ IsSpace(Head(s)) THEN lstrip(Tail(s)) ELSE s

RECURSIVE rstrip(_)
rstrip(s) ==
    IF s # <<>> /\ IsSpace(s[Len(s)]) THEN rstrip(SubSeq(s, 1, Len(s) - 1)) ELSE s

strip(s) == rstrip(lstrip(s))

\* moderate_query that blocks the message when the moderation call fails
moderate_query_closed(outcome) ==
    /\ outcome.kind = "answer"
    /\ ~Contains(<<117,110,115,97,102,101>>, lower(strip(outcome.response)))
        \* unsafe

\* moderate_query(query) when the moderation call ends with `outcome`: False
\* when the stripped, lowercased answer contains "unsafe", True otherwise and
\* on any exception (the missing key included)
moderate_query(outcome) ==
    IF outcome.kind = "answer"
    THEN ~Contains(<<117,110,115,97,102,101>>, lower(strip(outcome.response)))
        \* unsafe
    ELSE TRUE

\* ------------------------------------------------------- generate_response

\* what ollama.chat(model="llama3.2", ...) does: it raises, or it returns
\* a message with the content
ChatRaised == [kind |-> "raised", content |-> <<>>]

ChatAnswer(t) == [kind |-> "answer", content |-> t]

GenerationError ==
    <<73,39,109,32,115,111,114,114,121,44,32,98,117,116,32,73,32,101,110,99,111,117,110,116,101,114,101,100,32,97,110,32,101,114,114,111,114,32,119,104,105,108,101,32,116,114,121,105,110,103,32,116,111,32,103,101,110,101,114,97,116,101,32,97,32,114,101,115,112,111,110,115,101,46>>
        \* I'm sorry, but I encountered an error while trying to generate a response.

\* generate_response(query, retrieved_docs, history) when the chat call ends
\* with `outcome`
generate_response(outcome) ==
    IF outcome.kind = "answer" THEN outcome.content ELSE GenerationError

\* ------------------------------------------------------------------ respond

Refusal ==
    <<73,39,109,32,115,111,114,114,121,44,32,98,117,116,32,121,111,117,114,32,113,117,101,114,121,32,118,105,111,108,97,116,101,115,32,111,117,114,32,115,97,102,101,116,121,32,103,117,105,100,101,108,105,110,101,115,46,32,73,32,99,97,110,110,111,116,32,112,114,111,99,101,115,115,32,116,104,105,115,32,114,101,113,117,101,115,116,46>>
        \* I'm sorry, but your query violates our safety guidelines. I cannot process this request.

\* the branch of respond always going on to retrieval
AfterModeration_always(safe) == "respond_search"

\* `if not llm_interface.moderate_query(message)`: the refusal branch or
\* the retrieval
AfterModeration(safe) == IF ~safe THEN "respond_refuse" ELSE "respond_search"

\* the append putting the pair in front of the history
AppendPair_front(history, msg, resp) == << <<msg, resp>> >> \o history

\* chat_history.append((message, response))
AppendPair(history, msg, resp) == Append(history, <<msg, resp>>)

\* what retriever.search(message) does: it raises, or it returns a mapping,
\* here the list of its (collection_name, results) items in insertion order
SearchRaised == [kind |-> "raised", items |-> <<>>]

SearchResults(items) == [kind |-> "results", items |-> items]

\* the value of a failed collection, and the answer of the store with the
\* text and the metadata of each record it returns
FailedResult == [documents |-> <<>>, metadatas |-> <<>>, isList |-> TRUE]

StoreResult(docs) ==
    [documents |-> [i \in DOMAIN docs |-> docs[i].text_for_embedding],
     metadatas |-> [i \in DOMAIN docs |-> docs[i].metadata],
     isList |-> FALSE]

\* the pairs (doc_content, metadata) of one item of search_results: none for
\* [] and for an answer without documents
Pairs(res) ==
    IF res.isList \/ res.documents = <<>> THEN <<>>
    ELSE [i \in DOMAIN res.documents |->
             [content |-> res.documents[i], metadata |-> res.metadatas[i]]]

\* retrieved_docs: the pairs of every item, in the order of the mapping
RECURSIVE RetrievedDocs(_)
RetrievedDocs(items) ==
    IF items = <<>> THEN <<>>
    ELSE Pairs(Head(items).results) \o RetrievedDocs(Tail(items))

\* `'key' in metadata and metadata['key'] not in enhanced_content`
MetadataPartWanted(metadata, key, content) ==
    /\ metadata[key] # Missing
    /\ ~Contains(metadata[key].s, content)

\* metadata['key'] not in enhanced_content raises TypeError for a value
\* that is not a str; f"{metadata['price']:.2f}" raises ValueError for a str
EnhanceRaises(metadata) ==
    \/ \E key \in {"product_name", "brand", "category"} :
           metadata[key] # Missing /\ metadata[key].kind # "str"
    \/ metadata["price"] # Missing /\ metadata["price"].kind # "num"

\* metadata_parts of one retrieved document
MetadataParts(content, metadata) ==
    (IF MetadataPartWanted(metadata, "product_name", content)
     THEN << <<80,114,111,100,117,99,116,32,78,97,109,101,58,32>> \o metadata["product_name"].s >> ELSE <<>>)
         \* Product Name: 
    \o (IF MetadataPartWanted(metadata, "brand", content)
        THEN << <<66,114,97,110,100,58,32>> \o metadata["brand"].s >> ELSE <<>>)
            \* Brand: 
    \o (IF MetadataPartWanted(metadata, "category", content)
        THEN << <<67,97,116,101,103,111,114,121,58,32>> \o metadata["category"].s >> ELSE <<>>)
            \* Category: 
    \o (IF metadata["price"] # Missing
        THEN << <<80,114,105,99,101,58,32,36>> \o Digits(metadata["price"].n) \o <<46,48,48>> >> ELSE <<>>)
            \* Price: $
            \* .00
    \o (IF metadata["rating"] # Missing
        THEN << <<82,97,116,105,110,103,58,32>> \o Format(metadata["rating"]) \o <<32,111,117,116,32,111,102,32,53>> >> ELSE <<>>)
            \* Rating: 
            \*  out of 5

\* enhanced_content of one retrieved document
EnhancedContent(content, metadata) ==
    IF \A k \in MetadataKeys : metadata[k] = Missing THEN content
    ELSE IF MetadataParts(content, metadata) = <<>> THEN content
    ELSE content \o <<10>> \o JoinComma(MetadataParts(content, metadata))

\* doc_contents
DocContents(retrieved) ==
    [i \in DOMAIN retrieved |-> EnhancedContent(retrieved[i].content, retrieved[i].metadata)]

\* docs_for_display
DocsForDisplay(retrieved) == retrieved

\* The application after start: the chat is empty, no call is in progress.
ChatIdle ==
    /\ message = <<>>
    /\ moderation = GenerateRaised
    /\ is_safe = TRUE
    /\ search_results = SearchRaised
    /\ retrieved_docs = <<>>
    /\ response = <<>>
    /\ docs_for_display = <<>>
    /\ calls = <<>>
    /\ chat_entry = <<>>

\* --------------------------------------------------------- text splitting

\* s[a:b] of Python on a str, for any integers a and b
SliceIndex(s, i) ==
    IF i < 0 THEN (IF i + Len(s) < 0 THEN 0 ELSE i + Len(s))
    ELSE IF i > Len(s) THEN Len(s) ELSE i

Slice(s, a, b) == SubSeq(s, SliceIndex(s, a) + 1, SliceIndex(s, b))

\* one pass of the while loop of _character_split that always moves `start`
\* to `end`
CharacterStep_noOverlap(t, at, acc, size, overlap) ==
    LET end   == at + size
        chunk == Slice(t, at, end)
    IN  [start  |-> end,
         chunks |-> IF strip(chunk) # <<>> THEN Append(acc, chunk) ELSE acc]

\* one pass of the while loop of _character_split
CharacterStep(t, at, acc, size, overlap) ==
    LET end   == at + size
        chunk == Slice(t, at, end)
    IN  [start  |-> IF overlap > 0 THEN end - overlap ELSE end,
         chunks |-> IF strip(chunk) # <<>> THEN Append(acc, chunk) ELSE acc]

\* the loop of _character_split from `start` on, where it ends
RECURSIVE CharacterLoop(_, _, _, _, _)
CharacterLoop(t, at, acc, size, overlap) ==
    IF at < Len(t)
    THEN LET after == CharacterStep(t, at, acc, size, overlap)
         IN  CharacterLoop(t, after.start, after.chunks, size, overlap)
    ELSE acc

\* what _character_split(text, chunk_size, chunk_overlap) returns; with an
\* overlap that keeps `start` from growing the loop does not end and nothing
\* is returned
character_split(t, size, overlap) ==
    IF overlap > 0 /\ overlap >= size THEN <<>>
    ELSE CharacterLoop(t, 0, <<>>, size, overlap)

\* separators of recursive_split
separators ==
    << <<10,10>>, <<10>>, <<46,32>>, <<33,32>>, <<63,32>>, <<59,32>>, <<44,32>>, <<32>>, <<>> >>
        \* . 
        \* ! 
        \* ? 
        \* ; 
        \* , 
        \*  

\* the first position at which sep occurs in t
FirstOccurrence(sep, t) ==
    CHOOSE i \in 1..Len(t) : OccursAt(sep, t, i) /\ \A j \in 1..(i - 1) : ~OccursAt(sep, t, j)

\* text.split(separator) for a separator that is not empty
RECURSIVE SplitOn(_, _)
SplitOn(t, sep) ==
    IF ~Contains(sep, t) THEN <<t>>
    ELSE LET i == FirstOccurrence(sep, t)
         IN  <<SubSeq(t, 1, i - 1)>> \o SplitOn(SubSeq(t, i + Len(sep), Len(t)), sep)

\* s.strip() appended to the list when it is not empty
AppendStripped(list, s) == IF strip(s) # <<>> THEN Append(list, strip(s)) ELSE list

\* _add_overlap(chunks, overlap_size)
add_overlap(acc, overlap_size) ==
    [i \in DOMAIN acc |->
        IF i = 1 THEN acc[i]
        ELSE LET prev_chunk == acc[i - 1]
                 overlap == IF Len(prev_chunk) > overlap_size
                            THEN Slice(prev_chunk, -overlap_size, Len(prev_chunk))
                            ELSE prev_chunk
             IN  overlap \o <<32>> \o acc[i]]

\* _recursive_split_helper(text, separators, chunk_size, chunk_overlap): the
\* chunks it returns and, in the order of the calls, the texts it passes to
\* _character_split.  HelperLoop is its for loop from the i-th split on.
RECURSIVE recursive_split_helper(_, _, _, _)
RECURSIVE HelperLoop(_, _, _, _, _, _, _, _)
HelperLoop(splits, i, seps, size, overlap, current_chunk, final_chunks, made) ==
    IF i > Len(splits)
    THEN [chunks |-> AppendStripped(final_chunks, current_chunk), calls |-> made]
    ELSE LET piece == IF i = 1 THEN splits[i] ELSE Head(seps) \o splits[i]
         IN  IF Len(current_chunk) + Len(piece) <= size
             THEN HelperLoop(splits, i + 1, seps, size, overlap,
                             current_chunk \o piece, final_chunks, made)
             ELSE IF Len(piece) > size
             THEN LET sub == recursive_split_helper(strip(piece), Tail(seps),
                                                    size, overlap)
                  IN  HelperLoop(splits, i + 1, seps, size, overlap, <<>>,
                                 AppendStripped(final_chunks, current_chunk) \o sub.chunks,
                                 made \o sub.calls)
             ELSE HelperLoop(splits, i + 1, seps, size, overlap, piece,
                             AppendStripped(final_chunks, current_chunk), made)

recursive_split_helper(t, seps, size, overlap) ==
    IF Len(t) <= size
    THEN [chunks |-> IF strip(t) # <<>> THEN <<t>> ELSE <<>>, calls |-> <<>>]
    ELSE IF seps = <<>> \/ Head(seps) = <<>>
    THEN [chunks |-> character_split(t, size, overlap), calls |-> <<t>>]
    ELSE LET built == HelperLoop(SplitOn(t, Head(seps)), 1, seps, size,
                                 overlap, <<>>, <<>>, <<>>)
         IN  [chunks |-> IF overlap > 0 /\ Len(built.chunks) > 1
                         THEN add_overlap(built.chunks, overlap)
                         ELSE built.chunks,
              calls |-> built.calls]

\* recursive_split(text, chunk_size, chunk_overlap)
recursive_split(t, size, overlap) ==
    recursive_split_helper(t, separators, size, overlap)

\* a match of sentence_endings: a white-space character after '.', '?' or
\* '!', unless what precedes it matches \w\.\w. or [A-Z][a-z]\.
SentenceEndAt(t, i) ==
    /\ IsSpace(t[i])
    /\ i >= 2
    /\ t[i - 1] \in {46, 63, 33}
    /\ ~( /\ i >= 5
          /\ IsWordChar(t[i - 4]) /\ t[i - 3] = 46 /\ IsWordChar(t[i - 2])
          /\ t[i - 1] # 10 )
    /\ ~( i >= 4 /\ IsUpper(t[i - 3]) /\ t[i - 2] \in 97..122 /\ t[i - 1] = 46 )

\* re.split(sentence_endings, text) from position `from` on, `piece` being
\* the start of the piece in progress
RECURSIVE SentencePieces(_, _, _)
SentencePieces(t, from, piece) ==
    IF from > Len(t) THEN << SubSeq(t, piece, Len(t)) >>
    ELSE IF SentenceEndAt(t, from)
    THEN << SubSeq(t, piece, from - 1) >> \o SentencePieces(t, from + 1, from + 1)
    ELSE SentencePieces(t, from + 1, piece)

\* [s.strip() for s in pieces if s.strip()]
RECURSIVE StrippedNonEmpty(_)
StrippedNonEmpty(pieces) ==
    IF pieces = <<>> THEN <<>>
    ELSE AppendStripped(<<>>, Head(pieces)) \o StrippedNonEmpty(Tail(pieces))

\* `sentences` of smart_split
Sentences(t) == StrippedNonEmpty(SentencePieces(t, 1, 1))

\* str.split(): the maximal runs of characters that are not white space
RECURSIVE Words(_)
Words(s) ==
    LET t == lstrip(s)
    IN  IF t = <<>> THEN <<>>
        ELSE LET n == CHOOSE k \in 1..Len(t) :
                          /\ k = Len(t) \/ IsSpace(t[k + 1])
                          /\ \A m \in 1..k : ~IsSpace(t[m])
             IN  << SubSeq(t, 1, n) >> \o Words(SubSeq(t, n + 1, Len(t)))

\* the chunks with ' '.join(list) appended when the list is not empty
AppendJoined(acc, list) == IF list # <<>> THEN Append(acc, Join(list)) ELSE acc

\* the word loop of smart_split on a sentence longer than chunk_size
RECURSIVE WordLoop(_, _, _, _, _)
WordLoop(words, acc, temp_chunk, temp_length, size) ==
    IF words = <<>> THEN AppendJoined(acc, temp_chunk)
    ELSE LET word == Head(words)
         IN  IF temp_length + Len(word) + 1 <= size
             THEN WordLoop(Tail(words), acc, Append(temp_chunk, word),
                           temp_length + Len(word) + 1, size)
             ELSE WordLoop(Tail(words), AppendJoined(acc, temp_chunk), <<word>>,
                           Len(word), size)

\* overlap_sentences: the sentences taken from the end of current_chunk
\* while their lengths add up to chunk_overlap at most
RECURSIVE OverlapSentences(_, _, _, _)
OverlapSentences(current_chunk, k, taken, overlap) ==
    IF k = 0 THEN <<>>
    ELSE IF taken + Len(current_chunk[k]) <= overlap
    THEN OverlapSentences(current_chunk, k - 1, taken + Len(current_chunk[k]), overlap)
             \o << current_chunk[k] >>
    ELSE <<>>

RECURSIVE SumLen(_)
SumLen(list) == IF list = <<>> THEN 0 ELSE Len(Head(list)) + SumLen(Tail(list))

\* the sentence loop of smart_split
RECURSIVE SentenceLoop(_, _, _, _, _, _)
SentenceLoop(sentences, acc, current_chunk, current_length, size, overlap) ==
    IF sentences = <<>> THEN AppendJoined(acc, current_chunk)
    ELSE LET sentence == Head(sentences)
         IN  IF Len(sentence) > size
             THEN SentenceLoop(Tail(sentences),
                      WordLoop(Words(sentence), AppendJoined(acc, current_chunk),
                               <<>>, 0, size),
                      <<>>, 0, size, overlap)
             ELSE IF current_length + Len(sentence) + 1 > size
             THEN IF overlap > 0 /\ current_chunk # <<>>
                  THEN LET started ==
                               OverlapSentences(current_chunk, Len(current_chunk), 0,
                                                overlap) \o <<sentence>>
                       IN  SentenceLoop(Tail(sentences), AppendJoined(acc, current_chunk),
                               started, SumLen(started) + Len(started),
                               size, overlap)
                  ELSE SentenceLoop(Tail(sentences), AppendJoined(acc, current_chunk),
                           <<sentence>>, Len(sentence), size, overlap)
             ELSE SentenceLoop(Tail(sentences), acc, Append(current_chunk, sentence),
                      current_length + Len(sentence) + 1, size, overlap)

\* smart_split(text, chunk_size, chunk_overlap)
smart_split(t, size, overlap) ==
    SentenceLoop(Sentences(t), <<>>, <<>>, 0, size, overlap)

\* No call of a splitting function is in progress.
SplitIdle ==
    /\ split_fn = ""
    /\ split_text = <<>>
    /\ start = 0
    /\ chunks = <<>>
    /\ iterations = 0
    /\ pending = [chunks |-> <<>>, calls |-> <<>>]

\* ---------------------------------------------------- populate_collection

\* batch_size = 500
batch_size == 500

\* a name the client lists no collection for, and a collection just created
NoCollection == [exists |-> FALSE, records |-> <<>>]

EmptyCollection == [exists |-> TRUE, records |-> <<>>]

\* the database of a db_path nothing was stored in
EmptyDatabase == [c \in Collections |-> NoCollection]

\* The try block before create_collection: the collection is deleted; when
\* list_collections or delete_collection raises, the error is logged and the
\* database is as it was.
DeleteCollection(db, name, raised) ==
    IF raised THEN db ELSE [db EXCEPT ![name] = NoCollection]

\* ids[i:i + batch_size], and the embeddings, metadatas and texts sliced the
\* same way: the documents of the batch that starts at index i
Batch(docs, i) ==
    SubSeq(docs, i + 1, IF i + batch_size < Len(docs) THEN i + batch_size ELSE Len(docs))

\* the ids of a list of documents or of records
Ids(list) == { list[k].id : k \in DOMAIN list }

\* collection.add raises DuplicateIDError when an id occurs twice among the
\* ids of one call
RepeatsAnId(batch) == Cardinality(Ids(batch)) < Len(batch)

\* the record stored for a document: ids, embeddings, documents and
\* metadatas of populate_collection, at one index
Record(doc) ==
    [id |-> doc.id,
     embedding |-> Embed(doc.text_for_embedding),
     document |-> doc.text_for_embedding,
     metadata |-> doc.metadata]

\* collection.add(embeddings, documents, metadatas, ids) that does not raise:
\* the records of the batch are stored after the ones the collection holds,
\* and a record whose id the collection holds already is left out
add(col, batch) ==
    LET held == Ids(col.records)
        fresh == SelectSeq(batch, LAMBDA doc : doc.id \notin held)
    IN  [col EXCEPT !.records = @ \o [k \in DOMAIN fresh |-> Record(fresh[k])]]

\* where an exception that leaves populate_collection arrives: at the caller
\* of run_etl_pipeline, or at the caller of populate_collection
RaisedAt(to) == IF to = "populate_returned" THEN "populate_raised" ELSE "pipeline_raised"

\* No call of populate_collection is in progress.
PopulateIdle ==
    /\ collection_name = ""
    /\ documents = <<>>
    /\ batch_start = 0
    /\ attempts = <<>>
    /\ stored_entry = EmptyDatabase
    /\ return_to = "idle"

\* ---------------------------------------------------------- state machine

\* The manager after __init__: the vocabulary is loaded (or None), no call
\* is in progress.
Init ==
    /\ filterable_metadata \in Vocabularies
    /\ pc = "idle"
    /\ query = <<>>
    /\ filters = <<>>
    /\ where_filter = EmptyFilter
    /\ cleaned_query = <<>>
    /\ target_collections = <<>>
    /\ store = [c \in Collections |-> [status |-> "missing", size |-> 0]]
    /\ hash_seed = 0
    /\ embedding_query = <<>>
    /\ query_embedding = NoVector
    /\ embed_calls = <<>>
    /\ store_calls = <<>>
    /\ results = NoResults
    /\ got = {}
    /\ done = {}
    /\ entry = NoEntry
    /\ previous = NoPrevious
    /\ products_file = MissingFile
    /\ reviews_file = MissingFile
    /\ product_documents = <<>>
    /\ review_documents = <<>>
    /\ chat_history = <<>>
    /\ ChatIdle
    /\ text = <<>>
    /\ chunk_size = 1
    /\ chunk_overlap = 0
    /\ SplitIdle
    /\ stored = EmptyDatabase
    /\ PopulateIdle

\* A call _extract_filters(q) runs to its return statement.
ExtractFilters ==
    /\ pc = "idle"
    /\ \E q \in Queries :
         \E order \in IterationOrders(MatchedSet(filterable_metadata, q)) :
            /\ query' = q
            /\ filters' = Filters(filterable_metadata, q, order)
            /\ where_filter' = WhereFilter(filters')
            /\ cleaned_query' = CleanedQuery(q)
    /\ pc' = "extract_filters"
    /\ UNCHANGED <<filterable_metadata, target_collections>>
    /\ UNCHANGED <<searchVars, ingestVars>>
    /\ UNCHANGED <<chatVars, splitVars, populateVars>>

\* A call _route_query(q) runs to its return statement.
RouteQuery ==
    /\ pc = "idle"
    /\ \E q \in Queries :
         /\ query' = q
         /\ target_collections' = route_query(q)
    /\ pc' = "route_query"
    /\ UNCHANGED <<filterable_metadata, filters, where_filter, cleaned_query>>
    /\ UNCHANGED <<searchVars, ingestVars>>
    /\ UNCHANGED <<chatVars, splitVars, populateVars>>

\* The caller takes the returned value; the locals of the call are gone.
Return ==
    /\ pc # "idle"
    /\ pc' = "idle"
    /\ query' = <<>>
    /\ filters' = <<>>
    /\ where_filter' = EmptyFilter
    /\ cleaned_query' = <<>>
    /\ target_collections' = <<>>
    /\ UNCHANGED filterable_metadata
    /\ UNCHANGED <<searchVars, ingestVars>>
    /\ UNCHANGED <<chatVars, splitVars, populateVars>>

Next == ExtractFilters \/ RouteQuery \/ Return

Spec == Init /\ [][Next]_vars

\* ------------------------------------------------------------ search inputs

\* EVALUATION_QUERIES: the query and the expected_collections of each entry
EVALUATION_QUERIES ==
    << [query |-> <<87,104,97,116,32,108,97,112,116,111,112,115,32,100,111,32,121,111,117,32,104,97,118,101,63>>,
        \* What laptops do you have?
        expected_collections |-> {"products"}],
       [query |-> <<68,111,32,121,111,117,32,104,97,118,101,32,97,110,121,32,71,97,109,105,110,103,32,108,97,112,116,111,112,115,63>>,
           \* Do you have any Gaming laptops?
        expected_collections |-> {"products"}],
       [query |-> <<87,104,97,116,32,76,105,103,104,116,119,101,105,103,104,116,32,108,97,112,116,111,112,115,32,100,111,32,121,111,117,32,104,97,118,101>>,
           \* What Lightweight laptops do you have
        expected_collections |-> {"products"}],
       [query |-> <<66,117,100,103,101,116,32,99,97,109,101,114,97,32,117,110,100,101,114,32,36,51,48,48>>,
           \* Budget camera under $300
        expected_collections |-> {"products"}],
       [query |-> <<83,104,97,114,101,32,109,111,114,101,32,100,101,116,97,105,108,115,32,111,110,32,83,109,97,114,116,88,32,80,114,111,80,104,111,110,101,32,99,97,109,101,114,97,32,114,101,118,105,101,119,115>>,
           \* Share more details on SmartX ProPhone camera reviews
        expected_collections |-> {"reviews"}],
       [query |-> <<87,104,97,116,32,100,111,32,99,117,115,116,111,109,101,114,115,32,115,97,121,32,97,98,111,117,116,32,98,97,116,116,101,114,121,32,108,105,102,101,32,111,102,32,84,101,99,104,80,114,111,32,85,108,116,114,97,98,111,111,107,63>>,
           \* What do customers say about battery life of TechPro Ultrabook?
        expected_collections |-> {"reviews"}],
       [query |-> <<87,104,97,116,32,84,86,32,117,110,100,101,114,32,36,53,48,48,32,100,111,32,121,111,117,32,104,97,118,101,63>>,
           \* What TV under $500 do you have?
        expected_collections |-> {"products"}],
       [query |-> <<87,104,97,116,32,65,117,100,105,111,32,112,114,111,100,117,99,116,115,32,100,111,32,121,111,117,32,104,97,118,101>>,
           \* What Audio products do you have
        expected_collections |-> {"products"}],
       [query |-> <<67,117,115,116,111,109,101,114,32,99,111,109,112,108,97,105,110,116,115,32,97,98,111,117,116,32,85,108,116,114,97,98,111,111,107>>,
           \* Customer complaints about Ultrabook
        expected_collections |-> {"reviews"}],
       [query |-> <<67,111,109,112,97,114,101,32,71,97,109,101,83,112,104,101,114,101,32,88,32,97,110,100,32,89>>,
           \* Compare GameSphere X and Y
        expected_collections |-> {"products", "reviews"}] >>

\* The queries search is called with: the evaluation set, the empty query
\* and a query with both a review and a product keyword.
SearchQueries ==
    { EVALUATION_QUERIES[n].query : n \in DOMAIN EVALUATION_QUERIES }
        \cup { <<>>, <<114,101,118,105,101,119,115,32,97,110,100,32,115,112,101,99,115>> }
            \* reviews and specs

\* The vocabularies of the managers search is called on: none, the brand and
\* category lists, the brand list alone.
SearchVocabularies ==
    { NoneMetadata,
      Metadata({"brands", "categories"}, Brands, Categories),
      Metadata({"brands"}, Brands, <<>>) }

\* ------------------------------------------------------- search, step by step

\* The manager after __init__ in a process whose store is in some state.
InitSearch ==
    /\ filterable_metadata \in SearchVocabularies
    /\ store \in Stores
    /\ hash_seed \in HashSeeds
    /\ pc = "idle"
    /\ query = <<>>
    /\ filters = <<>>
    /\ where_filter = EmptyFilter
    /\ cleaned_query = <<>>
    /\ target_collections = <<>>
    /\ embedding_query = <<>>
    /\ query_embedding = NoVector
    /\ embed_calls = <<>>
    /\ store_calls = <<>>
    /\ results = NoResults
    /\ got = {}
    /\ done = {}
    /\ entry = NoEntry
    /\ previous = NoPrevious
    /\ products_file = MissingFile
    /\ reviews_file = MissingFile
    /\ product_documents = <<>>
    /\ review_documents = <<>>
    /\ chat_history = <<>>
    /\ ChatIdle
    /\ text = <<>>
    /\ chunk_size = 1
    /\ chunk_overlap = 0
    /\ SplitIdle
    /\ stored = EmptyDatabase
    /\ PopulateIdle

\* search(q) is called and runs step 1: _extract_filters and the choice of
\* the text to embed.
SearchExtract ==
    /\ pc = "idle"
    /\ \E q \in SearchQueries :
         /\ query' = q
         /\ filters' = InitialFilters(filters)
                          \o Filters(filterable_metadata, q,
                                     SeededOrder(hash_seed, MatchedSet(filterable_metadata, q)))
         /\ where_filter' = WhereFilter(filters')
         /\ cleaned_query' = CleanedQuery(q)
         /\ embedding_query' = EmbeddingQuery(cleaned_query', q)
         /\ previous' = IF previous.valid /\ previous.query = q THEN previous ELSE NoPrevious
    /\ pc' = "search_extract"
    /\ target_collections' = <<>>
    /\ query_embedding' = NoVector
    /\ embed_calls' = <<>>
    /\ store_calls' = <<>>
    /\ results' = NoResults
    /\ got' = {}
    /\ done' = {}
    /\ entry' = [filterable_metadata |-> filterable_metadata, store |-> store]
    /\ UNCHANGED ingestVars
    /\ UNCHANGED <<chatVars, splitVars, populateVars>>
    /\ UNCHANGED <<filterable_metadata, store, hash_seed>>

\* Step 2: target_collections = self._route_query(query)
SearchRoute ==
    /\ pc = "search_extract"
    /\ target_collections' = route_query(query)
    /\ pc' = "search_route"
    /\ UNCHANGED ingestVars
    /\ UNCHANGED <<chatVars, splitVars, populateVars>>
    /\ UNCHANGED <<filterable_metadata, query, filters, where_filter, cleaned_query,
                   store, hash_seed, embedding_query, query_embedding, embed_calls,
                   store_calls, results, got, done, entry, previous>>

\* Step 3: the provider is called with embedding_query; it returns the
\* vector or raises, and nothing in search catches what it raises.
SearchEmbed ==
    /\ pc = "search_route"
    /\ embed_calls' = Append(embed_calls, embedding_query)
    /\ \E ok \in BOOLEAN :
         IF ok
         THEN /\ query_embedding' = Embed(embedding_query)
              /\ pc' = "search_loop"
         ELSE /\ query_embedding' = NoVector
              /\ pc' = "search_raised"
    /\ UNCHANGED ingestVars
    /\ UNCHANGED <<chatVars, splitVars, populateVars>>
    /\ UNCHANGED <<filterable_metadata, query, filters, where_filter, cleaned_query,
                   target_collections, store, hash_seed, embedding_query,
                   store_calls, results, got, done, entry, previous>>

\* the outcome of a failed step of the loop body for collection c
Failure(c) ==
    LET h == HandleQueryError(results, c)
    IN  /\ results' = h.results
        /\ pc' = IF h.raised THEN "search_raised" ELSE pc
        /\ got' = got \ {c}
        /\ done' = done \cup {c}

\* collection = self.client.get_collection(name=c)
GetCollection(c) ==
    /\ pc = "search_loop"
    /\ c \in Range(target_collections) \ (got \cup done)
    /\ IF store[c].status = "missing"
       THEN Failure(c)
       ELSE /\ got' = got \cup {c}
            /\ UNCHANGED <<results, pc, done>>
    /\ UNCHANGED ingestVars
    /\ UNCHANGED <<chatVars, splitVars, populateVars>>
    /\ UNCHANGED <<filterable_metadata, query, filters, where_filter, cleaned_query,
                   target_collections, store, hash_seed, embedding_query,
                   query_embedding, embed_calls, store_calls, entry, previous>>

\* retrieved = collection.query(...); results[c] = retrieved
QueryCollection(c) ==
    /\ pc = "search_loop"
    /\ c \in got
    /\ LET call == QueryCall(c, query_embedding, where_filter)
       IN  /\ store_calls' = Append(store_calls, call)
           /\ IF store[c].status = "faulty"
              THEN Failure(c)
              ELSE /\ results' = [results EXCEPT ![c] =
                                    QueryResult(Nearest(c, store[c].size,
                                                        call.query_embeddings[1],
                                                        call.n_results, call.where))]
                   /\ got' = got \ {c}
                   /\ done' = done \cup {c}
                   /\ pc' = pc
    /\ UNCHANGED ingestVars
    /\ UNCHANGED <<chatVars, splitVars, populateVars>>
    /\ UNCHANGED <<filterable_metadata, query, filters, where_filter, cleaned_query,
                   target_collections, store, hash_seed, embedding_query,
                   query_embedding, embed_calls, entry, previous>>

\* `for collection_name in target_collections`: the collection whose pass is
\* running or comes next
Turn(c) ==
    /\ Cardinality(done) < Len(target_collections)
    /\ c = target_collections[Cardinality(done) + 1]

\* Step 4, the first half of a pass of the loop
SearchGetCollection == \E c \in Collections : Turn(c) /\ GetCollection(c)

\* Step 4, the second half of a pass of the loop
SearchQueryCollection == \E c \in Collections : Turn(c) /\ QueryCollection(c)

\* return results
SearchReturn ==
    /\ pc = "search_loop"
    /\ done = Range(target_collections)
    /\ pc' = "search_returned"
    /\ UNCHANGED ingestVars
    /\ UNCHANGED <<chatVars, splitVars, populateVars>>
    /\ UNCHANGED <<filterable_metadata, query, filters, where_filter, cleaned_query,
                   target_collections, store, hash_seed, embedding_query,
                   query_embedding, embed_calls, store_calls, results, got, done,
                   entry, previous>>

\* The caller has the mapping or the exception and the names of the call are
\* unbound again; `filters` keeps the list the call ended with until the next
\* call binds it anew.
SearchDone ==
    /\ pc \in {"search_returned", "search_raised"}
    /\ previous' = IF pc = "search_returned"
                   THEN [valid |-> TRUE, query |-> query, results |-> results,
                         store_calls |-> store_calls]
                   ELSE NoPrevious
    /\ pc' = "idle"
    /\ query' = <<>>
    /\ where_filter' = EmptyFilter
    /\ cleaned_query' = <<>>
    /\ target_collections' = <<>>
    /\ embedding_query' = <<>>
    /\ query_embedding' = NoVector
    /\ embed_calls' = <<>>
    /\ store_calls' = <<>>
    /\ results' = NoResults
    /\ got' = {}
    /\ done' = {}
    /\ entry' = NoEntry
    /\ UNCHANGED ingestVars
    /\ UNCHANGED <<chatVars, splitVars, populateVars>>
    /\ UNCHANGED <<filterable_metadata, filters, store, hash_seed>>

\* Between two calls the content of the store is replaced (a rebuild of the
\* collections).
StoreChanges ==
    /\ pc = "idle"
    /\ store' \in Stores \ {store}
    /\ previous' = NoPrevious
    /\ pc' = pc
    /\ UNCHANGED ingestVars
    /\ UNCHANGED <<chatVars, splitVars, populateVars>>
    /\ UNCHANGED <<filterable_metadata, query, filters, where_filter, cleaned_query,
                   target_collections, hash_seed, embedding_query,
                   query_embedding, embed_calls, store_calls, results, got, done,
                   entry>>

NextSearch ==
    \/ SearchExtract
    \/ SearchRoute
    \/ SearchEmbed
    \/ SearchGetCollection
    \/ SearchQueryCollection
    \/ SearchReturn
    \/ SearchDone
    \/ StoreChanges

SpecSearch == InitSearch /\ [][NextSearch]_vars

\* The passes of the loop started in any order and interleaved.
AnyGetCollection == \E c \in Collections : GetCollection(c)

AnyQueryCollection == \E c \in Collections : QueryCollection(c)

NextAnyOrder ==
    \/ SearchExtract
    \/ SearchRoute
    \/ SearchEmbed
    \/ AnyGetCollection
    \/ AnyQueryCollection
    \/ SearchReturn
    \/ SearchDone
    \/ StoreChanges

SpecAnyOrder == InitSearch /\ [][NextAnyOrder]_vars


\* -------------------------------------------------------- ingestion inputs

\* the most products a products file holds
MaxProducts == 2

\* the most review groups a reviews file holds
MaxGroups == 2

Product(name, model_number, category, brand, price, features, description) ==
    [k \in ProductFields |->
        CASE k = "name"         -> name
          [] k = "model_number" -> model_number
          [] k = "category"     -> category
          [] k = "brand"        -> brand
          [] k = "price"        -> price
          [] k = "features"     -> features
          [] k = "description"  -> description]

\* The products a file is made of: a complete one, another one with the same
\* model_number, one with a null model_number and without the optional
\* fields, one without model_number.
ProductPool ==
    { Product(Text(<<85,108,116,114,97,98,111,111,107>>),
        \* Ultrabook
              Text(<<84,80,45,85,66,49,48,48>>),
                  \* TP-UB100
              Text(ComputersAndLaptops),
              Text(<<84,101,99,104,80,114,111>>),
                  \* TechPro
              Number(799),
              List(<< <<49,51,46,51,45,105,110,99,104,32,100,105,115,112,108,97,121>>,
                  \* 13.3-inch display
                      <<56,71,66,32,82,65,77>> >>),
                          \* 8GB RAM
              Text(<<65,32,115,108,101,101,107,32,117,108,116,114,97,98,111,111,107>>)),
                  \* A sleek ultrabook
      Product(Text(<<85,108,116,114,97,98,111,111,107,32,80,114,111>>),
          \* Ultrabook Pro
              Text(<<84,80,45,85,66,49,48,48>>),
                  \* TP-UB100
              Text(ComputersAndLaptops),
              Text(<<84,101,99,104,80,114,111>>),
                  \* TechPro
              Number(999), List(<<>>), Missing),
      Product(Text(<<80,114,111,80,104,111,110,101>>),
          \* ProPhone
              Null, Missing, Missing, Missing, Missing, Missing),
      Product(Text(<<89>>),
          \* Y
              Missing, Null,
              Text(<<71,97,109,101,83,112,104,101,114,101>>),
                  \* GameSphere
              Number(0), Missing, Null) }

ProductsFiles ==
    { MissingFile, UndecodableFile }
        \cup { JsonFile(d) : d \in UNION { [1..n -> ProductPool] : n \in 0..MaxProducts } }

Review(review_id, review, rating) ==
    [k \in {"review_id", "review", "rating"} |->
        CASE k = "review_id" -> review_id
          [] k = "review"    -> review
          [] k = "rating"    -> rating]

Group(model_number, reviews) ==
    [k \in {"model_number", "reviews"} |->
        CASE k = "model_number" -> model_number
          [] k = "reviews"      -> reviews]

\* The review groups a file is made of.
GroupPool ==
    { Group(Text(<<84,80,45,85,66,49,48,48>>),
        \* TP-UB100
            List(<< Review(Number(1),
                           Text(<<71,114,101,97,116>>),
                               \* Great
                           Number(5)),
                    Review(Number(2),
                           Text(<<84,111,111,32,104,111,116>>),
                               \* Too hot
                           Missing) >>)),
      Group(Text(<<84,80,45,85,66,49,48,48>>),
          \* TP-UB100
            List(<< Review(Text(<<49>>),
                \* 1
                           Text(<<66,114,111,107,101>>),
                               \* Broke
                           Number(1)) >>)),
      Group(Text(<<84,80,45,85,66,49,48,48>>),
          \* TP-UB100
            List(<< Review(Missing,
                           Text(<<70,105,110,101>>),
                               \* Fine
                           Number(4)),
                    Review(Number(2), Missing, Null),
                    Review(Number(0),
                           Text(<<79,107,97,121>>),
                               \* Okay
                           Number(3)) >>)),
      Group(Text(<<90,90,45,57>>),
          \* ZZ-9
            List(<< Review(Number(3),
                           Text(<<71,111,111,100>>),
                               \* Good
                           Number(4)) >>)),
      Group(Missing,
            List(<< Review(Number(4),
                           Text(<<66,97,100>>),
                               \* Bad
                           Number(2)) >>)),
      Group(Text(<<84,80,45,85,66,49,48,48>>),
          \* TP-UB100
            Missing) }

ReviewsFiles ==
    { MissingFile, UndecodableFile }
        \cup { JsonFile(d) : d \in UNION { [1..n -> GroupPool] : n \in 0..MaxGroups } }

\* ------------------------------------------------- ingestion, step by step

\* The two data files before run_etl_pipeline is started.
InitIngest ==
    /\ products_file \in ProductsFiles
    /\ reviews_file \in ReviewsFiles
    /\ product_documents = <<>>
    /\ review_documents = <<>>
    /\ pc = "idle"
    /\ filterable_metadata = NoneMetadata
    /\ query = <<>>
    /\ filters = <<>>
    /\ where_filter = EmptyFilter
    /\ cleaned_query = <<>>
    /\ target_collections = <<>>
    /\ store = [c \in Collections |-> [status |-> "missing", size |-> 0]]
    /\ hash_seed = 0
    /\ embedding_query = <<>>
    /\ query_embedding = NoVector
    /\ embed_calls = <<>>
    /\ store_calls = <<>>
    /\ results = NoResults
    /\ got = {}
    /\ done = {}
    /\ entry = NoEntry
    /\ previous = NoPrevious
    /\ chat_history = <<>>
    /\ ChatIdle
    /\ text = <<>>
    /\ chunk_size = 1
    /\ chunk_overlap = 0
    /\ SplitIdle
    /\ stored = EmptyDatabase
    /\ PopulateIdle

\* Step 1: product_documents = prepare_product_documents(products_file)
PrepareProductDocuments ==
    /\ pc = "idle"
    /\ product_documents' = prepare_product_documents(products_file)
    /\ review_documents' = <<>>
    /\ pc' = "products_prepared"
    /\ UNCHANGED <<products_file, reviews_file>>
    /\ UNCHANGED searchVars
    /\ UNCHANGED <<chatVars, splitVars, populateVars>>
    /\ UNCHANGED <<filterable_metadata, query, filters, where_filter, cleaned_query,
                   target_collections>>

\* db_manager.populate_collection("products", product_documents) is called
PopulateProducts ==
    /\ pc = "products_prepared"
    /\ collection_name' = "products"
    /\ documents' = product_documents
    /\ batch_start' = 0
    /\ attempts' = <<>>
    /\ stored_entry' = stored
    /\ return_to' = "products_populated"
    /\ pc' = "populate_collection"
    /\ UNCHANGED stored
    /\ UNCHANGED <<baseVars, searchVars, ingestVars, chatVars, splitVars>>

\* Step 2: review_documents = prepare_review_documents(reviews_file, products_file)
PrepareReviewDocuments ==
    /\ pc = "products_populated"
    /\ review_documents' = prepare_review_documents(reviews_file, products_file)
    /\ pc' = "reviews_prepared"
    /\ UNCHANGED <<products_file, reviews_file, product_documents>>
    /\ UNCHANGED searchVars
    /\ UNCHANGED <<chatVars, splitVars, populateVars>>
    /\ UNCHANGED <<filterable_metadata, query, filters, where_filter, cleaned_query,
                   target_collections>>

\* db_manager.populate_collection("reviews", review_documents) is called
PopulateReviews ==
    /\ pc = "reviews_prepared"
    /\ collection_name' = "reviews"
    /\ documents' = review_documents
    /\ batch_start' = 0
    /\ attempts' = <<>>
    /\ stored_entry' = stored
    /\ return_to' = "reviews_populated"
    /\ pc' = "populate_collection"
    /\ UNCHANGED stored
    /\ UNCHANGED <<baseVars, searchVars, ingestVars, chatVars, splitVars>>

\* `if not documents:` the call logs a warning and returns
PopulateSkip ==
    /\ pc = "populate_collection"
    /\ documents = <<>>
    /\ pc' = return_to
    /\ UNCHANGED populateVars
    /\ UNCHANGED <<baseVars, searchVars, ingestVars, chatVars, splitVars>>

\* The try block: the collection is deleted if the client lists it; an
\* exception of list_collections or delete_collection is logged and the call
\* goes on.
PopulateDelete ==
    /\ pc = "populate_collection"
    /\ documents # <<>>
    /\ \E raised \in BOOLEAN :
          stored' = DeleteCollection(stored, collection_name, raised)
    /\ pc' = "create_collection"
    /\ UNCHANGED <<collection_name, documents, batch_start, attempts, stored_entry,
                   return_to>>
    /\ UNCHANGED <<baseVars, searchVars, ingestVars, chatVars, splitVars>>

\* collection = self.client.create_collection(name=collection_name): raises
\* when the client still has a collection of that name; the exception leaves
\* populate_collection
PopulateCreate ==
    /\ pc = "create_collection"
    /\ IF stored[collection_name].exists
       THEN /\ pc' = RaisedAt(return_to)
            /\ UNCHANGED stored
       ELSE /\ pc' = "generate_embeddings"
            /\ stored' = [stored EXCEPT ![collection_name] = EmptyCollection]
    /\ UNCHANGED <<collection_name, documents, batch_start, attempts, stored_entry,
                   return_to>>
    /\ UNCHANGED <<baseVars, searchVars, ingestVars, chatVars, splitVars>>

\* embeddings = self._generate_embeddings(texts_to_embed): an exception of
\* the model leaves populate_collection; otherwise the loop starts at i = 0
PopulateEmbed ==
    /\ pc = "generate_embeddings"
    /\ \E raised \in BOOLEAN :
          pc' = IF raised THEN RaisedAt(return_to) ELSE "add_batch"
    /\ batch_start' = 0
    /\ UNCHANGED <<stored, collection_name, documents, attempts, stored_entry, return_to>>
    /\ UNCHANGED <<baseVars, searchVars, ingestVars, chatVars, splitVars>>

\* One pass of `for i in range(0, len(ids), batch_size)`: collection.add is
\* called with the batch that starts at i.  When it raises (an id repeated
\* in the batch, or the store failing) the error is logged and the call
\* returns; otherwise the loop goes on with the next batch.
PopulateAddBatch ==
    /\ pc = "add_batch"
    /\ batch_start < Len(documents)
    /\ \E raised \in BOOLEAN :
          LET batch == Batch(documents, batch_start)
              fails == raised \/ RepeatsAnId(batch)
          IN  /\ attempts' = Append(attempts, [i |-> batch_start, raised |-> fails])
              /\ IF fails
                 THEN /\ pc' = return_to
                      /\ UNCHANGED <<stored, batch_start>>
                 ELSE /\ pc' = "add_batch"
                      /\ stored' = [stored EXCEPT ![collection_name] = add(@, batch)]
                      /\ batch_start' = batch_start + batch_size
    /\ UNCHANGED <<collection_name, documents, stored_entry, return_to>>
    /\ UNCHANGED <<baseVars, searchVars, ingestVars, chatVars, splitVars>>

\* The loop is over: the count is logged and the call returns.
PopulateReturn ==
    /\ pc = "add_batch"
    /\ batch_start >= Len(documents)
    /\ pc' = return_to
    /\ UNCHANGED populateVars
    /\ UNCHANGED <<baseVars, searchVars, ingestVars, chatVars, splitVars>>

\* run_etl_pipeline returns db_manager
PipelineReturn ==
    /\ pc = "reviews_populated"
    /\ pc' = "pipeline_returned"
    /\ UNCHANGED <<products_file, reviews_file, product_documents, review_documents>>
    /\ UNCHANGED searchVars
    /\ UNCHANGED <<chatVars, splitVars, populateVars>>
    /\ UNCHANGED <<filterable_metadata, query, filters, where_filter, cleaned_query,
                   target_collections>>

\* The pipeline has returned or raised; it can be run again on the same
\* files and the database it left.
PipelineDone ==
    /\ pc \in {"pipeline_returned", "pipeline_raised"}
    /\ pc' = "idle"
    /\ collection_name' = ""
    /\ documents' = <<>>
    /\ batch_start' = 0
    /\ attempts' = <<>>
    /\ stored_entry' = EmptyDatabase
    /\ return_to' = "idle"
    /\ UNCHANGED stored
    /\ UNCHANGED <<baseVars, searchVars, ingestVars, chatVars, splitVars>>

NextIngest ==
    \/ PrepareProductDocuments
    \/ PopulateProducts
    \/ PrepareReviewDocuments
    \/ PopulateReviews
    \/ PopulateSkip
    \/ PopulateDelete
    \/ PopulateCreate
    \/ PopulateEmbed
    \/ PopulateAddBatch
    \/ PopulateReturn
    \/ PipelineReturn
    \/ PipelineDone

SpecIngest == InitIngest /\ [][NextIngest]_vars

\* ------------------------------------------------------ populate inputs

\* the most full batches a list of documents fills
MaxBatches == 2

\* the product names of the lists populate_collection is called with, and of
\* the list an earlier call was made with
NewSource == <<78,101,119>>
    \* New

OldSource == <<79,108,100>>
    \* Old

\* The document prepare_product_documents makes of the k-th product of a file
\* whose products are named `source` and numbered from 1; the product at
\* index `twin`, if any, repeats the model_number of the first.
BulkDocument(source, k, twin) ==
    ProductDocument(Product(Text(source), Number(IF k = twin THEN 1 ELSE k),
                            Missing, Missing, Missing, Missing, Missing))

BulkDocuments(source, n, twin) == [k \in 1..n |-> BulkDocument(source, k, twin)]

\* lengths below, at and above batch_size, and one past the last full batch
BulkLengths == {1, batch_size - 1, batch_size, batch_size + 1, MaxBatches * batch_size + 1}

\* The lists populate_collection is called with: none, lists of distinct
\* ids, a list whose second document repeats the first id, and a list whose
\* second batch starts with the first id.
DocumentLists ==
    {<<>>}
        \cup { BulkDocuments(NewSource, n, 0) : n \in BulkLengths }
        \cup { BulkDocuments(NewSource, 2, 2),
               BulkDocuments(NewSource, MaxBatches * batch_size + 1, batch_size + 1) }

\* the collection an earlier call left: one batch short of one record, added
\* without an error
EarlierCollection ==
    add(EmptyCollection, BulkDocuments(OldSource, batch_size - 1, 0))

\* The databases a call finds: each collection is unknown to the client or
\* holds the records of an earlier call.
Databases == [Collections -> {NoCollection, EarlierCollection}]

\* ------------------------------------------- populate_collection, stepwise

\* A manager on the database of its db_path, before populate_collection is
\* called.
InitPopulate ==
    /\ pc = "idle"
    /\ filterable_metadata = NoneMetadata
    /\ query = <<>>
    /\ filters = <<>>
    /\ where_filter = EmptyFilter
    /\ cleaned_query = <<>>
    /\ target_collections = <<>>
    /\ store = [c \in Collections |-> [status |-> "missing", size |-> 0]]
    /\ hash_seed = 0
    /\ embedding_query = <<>>
    /\ query_embedding = NoVector
    /\ embed_calls = <<>>
    /\ store_calls = <<>>
    /\ results = NoResults
    /\ got = {}
    /\ done = {}
    /\ entry = NoEntry
    /\ previous = NoPrevious
    /\ products_file = MissingFile
    /\ reviews_file = MissingFile
    /\ product_documents = <<>>
    /\ review_documents = <<>>
    /\ chat_history = <<>>
    /\ ChatIdle
    /\ text = <<>>
    /\ chunk_size = 1
    /\ chunk_overlap = 0
    /\ SplitIdle
    /\ stored \in Databases
    /\ PopulateIdle

\* populate_collection(collection_name, documents) is called
PopulateCall ==
    /\ pc = "idle"
    /\ collection_name' \in Collections
    /\ documents' \in DocumentLists
    /\ batch_start' = 0
    /\ attempts' = <<>>
    /\ stored_entry' = stored
    /\ return_to' = "populate_returned"
    /\ pc' = "populate_collection"
    /\ UNCHANGED stored
    /\ UNCHANGED <<baseVars, searchVars, ingestVars, chatVars, splitVars>>

NextPopulate ==
    \/ PopulateCall
    \/ PopulateSkip
    \/ PopulateDelete
    \/ PopulateCreate
    \/ PopulateEmbed
    \/ PopulateAddBatch
    \/ PopulateReturn

SpecPopulate == InitPopulate /\ [][NextPopulate]_vars

\* --------------------------------------------------------- chatbot inputs

\* a call starts only while the history has fewer than MaxHistory pairs
MaxHistory == 2

Messages ==
    { <<87,104,97,116,32,108,97,112,116,111,112,115,32,100,111,32,121,111,117,32,104,97,118,101,63>>,
        \* What laptops do you have?
      <<114,101,118,105,101,119,115,32,111,102,32,116,104,101,32,85,108,116,114,97,98,111,111,107>> }
          \* reviews of the Ultrabook

ModerationOutcomes ==
    { GenerateRaised,
      GenerateNoAnswer,
      GenerateAnswer(<<115,97,102,101>>),
          \* safe
      GenerateAnswer(<<10,10>> \o <<117,110,115,97,102,101>> \o <<10>> \o <<83,57>>),
          \* unsafe
          \* S9
      GenerateAnswer(<<32,85,78,83,65,70,69,32>>),
          \*  UNSAFE 
      GenerateAnswer(<<>>) }
          \* (the empty string)

ChatOutcomes ==
    { ChatRaised,
      ChatAnswer(<<87,101,32,104,97,118,101,32,116,104,101,32,85,108,116,114,97,98,111,111,107,46>>),
          \* We have the Ultrabook.
      ChatAnswer(<<>>) }
          \* (the empty string)

\* the documents the store answers with
StoredProductRecord ==
    Product(Text(<<85,108,116,114,97,98,111,111,107>>),
        \* Ultrabook
            Text(<<84,80,45,85,66,49,48,48>>),
                \* TP-UB100
            Text(ComputersAndLaptops),
            Text(<<84,101,99,104,80,114,111>>),
                \* TechPro
            Number(799), List(<<>>), Missing)

StoredProduct == ProductDocument(StoredProductRecord)

StoredProductTextPrice ==
    [StoredProduct EXCEPT !.metadata["price"] =
        Text(<<55,57,57,46,57,57>>)]
            \* 799.99

StoredReview ==
    ReviewDocument(Review(Number(1),
                          Text(<<71,114,101,97,116>>),
                              \* Great
                          Number(5)),
                   Text(<<84,80,45,85,66,49,48,48>>),
                       \* TP-UB100
                   ProductLookup(<<StoredProductRecord>>, Text(<<84,80,45,85,66,49,48,48>>)))
                       \* TP-UB100

SearchOutcomes ==
    { SearchRaised,
      SearchResults(<< [name |-> "products", results |-> FailedResult] >>),
      SearchResults(<< [name |-> "products", results |-> StoreResult(<<>>)] >>),
      SearchResults(<< [name |-> "reviews", results |-> StoreResult(<<StoredReview>>)],
                       [name |-> "products", results |-> StoreResult(<<StoredProduct>>)] >>),
      SearchResults(<< [name |-> "products",
                        results |-> StoreResult(<<StoredProductTextPrice>>)] >>) }

\* ---------------------------------------------------------- chatbot steps

InitChat ==
    /\ chat_history = <<>>
    /\ ChatIdle
    /\ text = <<>>
    /\ chunk_size = 1
    /\ chunk_overlap = 0
    /\ SplitIdle
    /\ stored = EmptyDatabase
    /\ PopulateIdle
    /\ pc = "idle"
    /\ filterable_metadata = NoneMetadata
    /\ query = <<>>
    /\ filters = <<>>
    /\ where_filter = EmptyFilter
    /\ cleaned_query = <<>>
    /\ target_collections = <<>>
    /\ store = [c \in Collections |-> [status |-> "missing", size |-> 0]]
    /\ hash_seed = 0
    /\ embedding_query = <<>>
    /\ query_embedding = NoVector
    /\ embed_calls = <<>>
    /\ store_calls = <<>>
    /\ results = NoResults
    /\ got = {}
    /\ done = {}
    /\ entry = NoEntry
    /\ previous = NoPrevious
    /\ products_file = MissingFile
    /\ reviews_file = MissingFile
    /\ product_documents = <<>>
    /\ review_documents = <<>>

\* one call made by respond, with its arguments
Call(fn, q, docs, history) == [fn |-> fn, query |-> q, docs |-> docs, history |-> history]

\* respond(message, chat_history) is called with the history of the chat and
\* moderates the message.
RespondModerate ==
    /\ pc = "idle"
    /\ Len(chat_history) < MaxHistory
    /\ \E m \in Messages : \E outcome \in ModerationOutcomes :
          /\ message' = m
          /\ moderation' = outcome
          /\ is_safe' = moderate_query(outcome)
          /\ calls' = << Call("moderate_query", m, <<>>, <<>>) >>
          /\ pc' = AfterModeration(is_safe')
    /\ chat_entry' = chat_history
    /\ UNCHANGED <<chat_history, search_results, retrieved_docs, response, docs_for_display>>
    /\ UNCHANGED <<baseVars, searchVars, ingestVars, splitVars, populateVars>>

\* The refusal branch: the fixed refusal is appended and respond returns
\* with no documents.
RespondRefuse ==
    /\ pc = "respond_refuse"
    /\ response' = Refusal
    /\ chat_history' = AppendPair(chat_history, message, Refusal)
    /\ docs_for_display' = <<>>
    /\ pc' = "respond_returned"
    /\ UNCHANGED <<message, moderation, is_safe, search_results, retrieved_docs, calls,
                   chat_entry>>
    /\ UNCHANGED <<baseVars, searchVars, ingestVars, splitVars, populateVars>>

\* search_results = retriever.search(message), flattened to retrieved_docs;
\* an exception of search, or of the formatting of a retrieved document,
\* leaves respond.
RespondSearch ==
    /\ pc = "respond_search"
    /\ \E outcome \in SearchOutcomes :
          /\ search_results' = outcome
          /\ retrieved_docs' = RetrievedDocs(outcome.items)
          /\ pc' = IF outcome.kind = "raised" THEN "respond_raised"
                   ELSE IF \E i \in DOMAIN retrieved_docs' :
                               EnhanceRaises(retrieved_docs'[i].metadata)
                        THEN "respond_raised"
                   ELSE "respond_generate"
    /\ calls' = Append(calls, Call("search", message, <<>>, <<>>))
    /\ UNCHANGED <<chat_history, message, moderation, is_safe, response, docs_for_display,
                   chat_entry>>
    /\ UNCHANGED <<baseVars, searchVars, ingestVars, splitVars, populateVars>>

\* response = generate_response(message, doc_contents, chat_history); the
\* pair is appended and respond returns with the documents.
RespondGenerate ==
    /\ pc = "respond_generate"
    /\ \E outcome \in ChatOutcomes :
          /\ response' = generate_response(outcome)
          /\ chat_history' = AppendPair(chat_history, message, response')
    /\ calls' = Append(calls, Call("generate_response", message,
                                   DocContents(retrieved_docs), chat_history))
    /\ docs_for_display' = DocsForDisplay(retrieved_docs)
    /\ pc' = "respond_returned"
    /\ UNCHANGED <<message, moderation, is_safe, search_results, retrieved_docs, chat_entry>>
    /\ UNCHANGED <<baseVars, searchVars, ingestVars, splitVars, populateVars>>

\* The interface takes what respond returned, or shows the error; the chat
\* keeps the history and the locals of the call are gone.
RespondDone ==
    /\ pc \in {"respond_returned", "respond_raised"}
    /\ pc' = "idle"
    /\ message' = <<>>
    /\ moderation' = GenerateRaised
    /\ is_safe' = TRUE
    /\ search_results' = SearchRaised
    /\ retrieved_docs' = <<>>
    /\ response' = <<>>
    /\ docs_for_display' = <<>>
    /\ calls' = <<>>
    /\ chat_entry' = <<>>
    /\ UNCHANGED chat_history
    /\ UNCHANGED <<baseVars, searchVars, ingestVars, splitVars, populateVars>>

NextChat ==
    RespondModerate \/ RespondRefuse \/ RespondSearch \/ RespondGenerate \/ RespondDone

SpecChat == InitChat /\ [][NextChat]_vars

\* ---------------------------------------------------------- splitter inputs

\* a text is at most MaxPieces pieces of TextPieces joined by single spaces
MaxPieces == 2

\* chunk_size is 1..MaxChunkSize, chunk_overlap is -1..MaxOverlap
MaxChunkSize == 3

MaxOverlap == 3

\* the while loop of _character_split is followed for MaxExtraIterations
\* passes more than the text has characters
MaxExtraIterations == 1

TextPieces ==
    { <<72,105,46>>,
        \* Hi.
      <<97,98,99,100,101,102,103>>,
          \* abcdefg
      <<65,32,98,63,32,99,33>>,
          \* A b? c!
      <<101,46,103,46,32,120,46>>,
          \* e.g. x.
      <<97,10,10,98>>,
          \* a, two line feeds, b
      <<32>> }
          \*  

Texts == { Join(ps) : ps \in UNION { [1..n -> TextPieces] : n \in 0..MaxPieces } }

\* ----------------------------------------------------------- splitter steps

\* A DocumentProcessor and the arguments its splitting functions are called
\* with.
InitSplit ==
    /\ text \in Texts
    /\ chunk_size \in 1..MaxChunkSize
    /\ chunk_overlap \in (-1)..MaxOverlap
    /\ SplitIdle
    /\ stored = EmptyDatabase
    /\ PopulateIdle
    /\ pc = "idle"
    /\ filterable_metadata = NoneMetadata
    /\ query = <<>>
    /\ filters = <<>>
    /\ where_filter = EmptyFilter
    /\ cleaned_query = <<>>
    /\ target_collections = <<>>
    /\ store = [c \in Collections |-> [status |-> "missing", size |-> 0]]
    /\ hash_seed = 0
    /\ embedding_query = <<>>
    /\ query_embedding = NoVector
    /\ embed_calls = <<>>
    /\ store_calls = <<>>
    /\ results = NoResults
    /\ got = {}
    /\ done = {}
    /\ entry = NoEntry
    /\ previous = NoPrevious
    /\ products_file = MissingFile
    /\ reviews_file = MissingFile
    /\ product_documents = <<>>
    /\ review_documents = <<>>
    /\ chat_history = <<>>
    /\ ChatIdle

\* smart_split(text, chunk_size, chunk_overlap) runs to its return statement.
SmartSplit ==
    /\ pc = "idle"
    /\ split_fn' = "smart_split"
    /\ chunks' = smart_split(text, chunk_size, chunk_overlap)
    /\ pc' = "split_returned"
    /\ UNCHANGED <<text, chunk_size, chunk_overlap, split_text, start, iterations, pending>>
    /\ UNCHANGED <<baseVars, searchVars, ingestVars, chatVars, populateVars>>

\* _character_split(text, chunk_size, chunk_overlap) is called: chunks = [],
\* start = 0.
CharacterSplitCall ==
    /\ pc = "idle"
    /\ split_fn' = "_character_split"
    /\ split_text' = text
    /\ start' = 0
    /\ chunks' = <<>>
    /\ iterations' = 0
    /\ pc' = "character_split"
    /\ UNCHANGED <<text, chunk_size, chunk_overlap, pending>>
    /\ UNCHANGED <<baseVars, searchVars, ingestVars, chatVars, populateVars>>

\* recursive_split(text, chunk_size, chunk_overlap) is called: it runs up to
\* its first call of _character_split, or to its return statement when it
\* makes none.
RecursiveSplitCall ==
    /\ pc = "idle"
    /\ split_fn' = "recursive_split"
    /\ pending' = recursive_split(text, chunk_size, chunk_overlap)
    /\ IF pending'.calls = <<>>
       THEN /\ chunks' = pending'.chunks
            /\ split_text' = <<>>
            /\ pc' = "split_returned"
       ELSE /\ chunks' = <<>>
            /\ split_text' = Head(pending'.calls)
            /\ pc' = "character_split"
    /\ start' = 0
    /\ iterations' = 0
    /\ UNCHANGED <<text, chunk_size, chunk_overlap>>
    /\ UNCHANGED <<baseVars, searchVars, ingestVars, chatVars, populateVars>>

\* One pass of `while start < len(text)`.
CharacterSplitStep ==
    /\ pc = "character_split"
    /\ start < Len(split_text)
    /\ iterations < Len(split_text) + MaxExtraIterations
    /\ LET after == CharacterStep(split_text, start, chunks, chunk_size, chunk_overlap)
       IN  /\ start' = after.start
           /\ chunks' = after.chunks
    /\ iterations' = iterations + 1
    /\ UNCHANGED <<text, chunk_size, chunk_overlap, split_fn, split_text, pending, pc>>
    /\ UNCHANGED <<baseVars, searchVars, ingestVars, chatVars, populateVars>>

\* The loop condition is false: _character_split returns its chunks to the
\* caller.
CharacterSplitReturn ==
    /\ pc = "character_split"
    /\ split_fn = "_character_split"
    /\ ~(start < Len(split_text))
    /\ pc' = "split_returned"
    /\ UNCHANGED <<text, chunk_size, chunk_overlap, split_fn, split_text, start, chunks,
                   iterations, pending>>
    /\ UNCHANGED <<baseVars, searchVars, ingestVars, chatVars, populateVars>>

\* The loop condition is false: _character_split returns its chunks to
\* recursive_split, which runs up to its next call of _character_split.
RecursiveSplitResume ==
    /\ pc = "character_split"
    /\ split_fn = "recursive_split"
    /\ ~(start < Len(split_text))
    /\ Len(pending.calls) > 1
    /\ pending' = [pending EXCEPT !.calls = Tail(pending.calls)]
    /\ split_text' = pending.calls[2]
    /\ start' = 0
    /\ chunks' = <<>>
    /\ iterations' = 0
    /\ UNCHANGED <<text, chunk_size, chunk_overlap, split_fn, pc>>
    /\ UNCHANGED <<baseVars, searchVars, ingestVars, chatVars, populateVars>>

\* The loop condition is false: the last _character_split of recursive_split
\* returns its chunks, and recursive_split runs to its return statement.
RecursiveSplitReturn ==
    /\ pc = "character_split"
    /\ split_fn = "recursive_split"
    /\ ~(start < Len(split_text))
    /\ Len(pending.calls) = 1
    /\ pending' = [chunks |-> <<>>, calls |-> <<>>]
    /\ split_text' = <<>>
    /\ start' = 0
    /\ chunks' = pending.chunks
    /\ iterations' = 0
    /\ pc' = "split_returned"
    /\ UNCHANGED <<text, chunk_size, chunk_overlap, split_fn>>
    /\ UNCHANGED <<baseVars, searchVars, ingestVars, chatVars, populateVars>>

\* The caller takes the chunks; the functions can be called again.
SplitDone ==
    /\ pc = "split_returned"
    /\ pc' = "idle"
    /\ split_fn' = ""
    /\ split_text' = <<>>
    /\ start' = 0
    /\ chunks' = <<>>
    /\ iterations' = 0
    /\ pending' = [chunks |-> <<>>, calls |-> <<>>]
    /\ UNCHANGED <<text, chunk_size, chunk_overlap>>
    /\ UNCHANGED <<baseVars, searchVars, ingestVars, chatVars, populateVars>>

NextSplit ==
    \/ SmartSplit
    \/ CharacterSplitCall
    \/ RecursiveSplitCall
    \/ CharacterSplitStep
    \/ CharacterSplitReturn
    \/ RecursiveSplitResume
    \/ RecursiveSplitReturn
    \/ SplitDone

SpecSplit == InitSplit /\ [][NextSplit]_vars

\* The interpreter keeps running the function that was called: a pass of the
\* loop, and the return once the loop condition is false, are taken.
SpecSplitFair ==
    /\ SpecSplit
    /\ WF_vars(CharacterSplitStep)
    /\ WF_vars(CharacterSplitReturn)
    /\ WF_vars(RecursiveSplitResume)
    /\ WF_vars(RecursiveSplitReturn)

\* ----------------------------------------------------------------- claims

IsPriceTerm(t) == t.field = "price"

IsBrandTerm(t) == t.field = "brand"

IsCategoryTerm(t) == t.field = "category"

Returned == pc = "extract_filters"

\* the amounts X such that an upper-bound (lower-bound) phrase followed by
\* the amount X occurs somewhere in the text
AmountsAfter(kws, t) ==
    { float(PatternGroup1(kws, t, i)) : i \in { k \in 1..Len(t) : PatternAt(kws, t, k) # 0 } }

\* every price bound of the text as a term
PriceBoundsOf(t) ==
    { PriceTerm("$lt", x) : x \in AmountsAfter(lt_keywords, t) }
        \cup { PriceTerm("$gt", x) : x \in AmountsAfter(gt_keywords, t) }

\* b occurs in t as a whole word, letter case ignored: the characters
\* next to the occurrence, if any, are not word characters
WholeWordAt(b, t, i) ==
    /\ OccursAtIgnoreCase(b, t, i)
    /\ i = 1 \/ ~IsWordChar(t[i - 1])
    /\ i + Len(b) > Len(t) \/ ~IsWordChar(t[i + Len(b)])

MentionedBrands(meta, t) ==
    { b \in Range(GetBrands(meta)) : \E i \in 1..Len(t) : WholeWordAt(b, t, i) }

\* some synonym of the table entry e, as the table writes it, occurs in the
\* lowercased text
SynonymOccurs(e, t) ==
    \E k \in 1..Len(e.synonyms) : Contains(e.synonyms[k], lower(t))

\* C1: the predicate is decided by the number of extracted terms: none gives
\* the empty predicate, one gives that term itself, two or more give one OR
\* over all of them; AND is never used.
C1_PredicateByTermCount ==
    Returned =>
        /\ Len(filters) = 0 => where_filter = [op |-> "none", terms |-> <<>>]
        /\ Len(filters) = 1 => where_filter = [op |-> "term", terms |-> filters]
        /\ Len(filters) >= 2 => where_filter = [op |-> "$or", terms |-> filters]
        /\ where_filter.op # "$and"

\* C1 witness: a price, a brand and a category term joined by one OR
C1_Witness ==
    /\ Returned
    /\ where_filter.op = "$or"
    /\ \E i, j, k \in 1..Len(filters) :
           IsPriceTerm(filters[i]) /\ IsBrandTerm(filters[j]) /\ IsCategoryTerm(filters[k])

\* C2: when the query contains a priority computing term and the vocabulary
\* has a category containing the marker, the predicate holds exactly one
\* category term, that vocabulary category, and with no price or brand term
\* the predicate is that term alone, not an OR.
C2_PriorityTermSingleCategory ==
    ( /\ Returned
      /\ Truthy(filterable_metadata)
      /\ AnyContained(priority_terms, lower(query))
      /\ \E c \in Range(GetCategories(filterable_metadata)) : Contains(ComputersMarker, c) )
    => LET cs == SelectSeq(filters, IsCategoryTerm)
       IN  /\ Len(cs) = 1
           /\ cs[1].str \in Range(GetCategories(filterable_metadata))
           /\ Contains(ComputersMarker, cs[1].str)
           /\ Len(filters) = 1 => where_filter = [op |-> "term", terms |-> cs]

\* C3: every category of the synonym table with a synonym occurring in the
\* lowercased query has its own category term in the predicate.
C3_EverySynonymCategorySelected ==
    (Returned /\ Truthy(filterable_metadata)) =>
        \A n \in 1..Len(CATEGORY_SYNONYMS) :
            SynonymOccurs(CATEGORY_SYNONYMS[n], query)
                => CategoryTerm(CATEGORY_SYNONYMS[n].category) \in Range(filters)

\* C4: every occurrence of an upper-bound or lower-bound phrase followed by
\* an amount has its range condition among the terms of the predicate.
C4_EveryPriceBoundExtracted ==
    Returned => PriceBoundsOf(query) \subseteq Range(where_filter.terms)

\* C5: with an upper-bound phrase of amount X and a lower-bound phrase of
\* amount Y in the query, price < X and price > Y are two separate terms of
\* one OR, whatever brand or category terms there are.
C5_BothBoundsJoinedByOr ==
    Returned =>
        \A x \in AmountsAfter(lt_keywords, query) :
            \A y \in AmountsAfter(gt_keywords, query) :
                /\ where_filter.op = "$or"
                /\ \E i, j \in 1..Len(where_filter.terms) :
                       /\ i # j
                       /\ where_filter.terms[i] = PriceTerm("$lt", x)
                       /\ where_filter.terms[j] = PriceTerm("$gt", y)

\* C6: the predicate holds at most one brand term, and when the query
\* mentions vocabulary brands as whole words the brand term is one of them
\* and no mentioned brand is longer.
C6_OneBrandLongestFirst ==
    Returned =>
        LET bs == SelectSeq(filters, IsBrandTerm)
            M  == MentionedBrands(filterable_metadata, query)
        IN  /\ Len(bs) <= 1
            /\ M # {} =>
                 /\ Len(bs) = 1
                 /\ bs[1].str \in M
                 /\ \A b \in M : Len(b) <= Len(bs[1].str)
                 /\ bs[1] \in Range(where_filter.terms)

\* C6 witness: two brands are mentioned and a shorter one comes first in
\* the text, before the one that became the brand term
C6_Witness ==
    /\ Returned
    /\ LET bs == SelectSeq(filters, IsBrandTerm)
           M  == MentionedBrands(filterable_metadata, query)
       IN  /\ Len(bs) = 1
           /\ \E b \in M :
                /\ Len(b) < Len(bs[1].str)
                /\ WholeWordAt(b, query, 1)
                /\ ~WholeWordAt(bs[1].str, query, 1)

\* C7: the embedding text returned is the raw query, character for character.
C7_EmbeddingTextIsRawQuery == Returned => cleaned_query = query

\* C7 witness: a query with a price phrase, a brand and a doubled space was
\* returned as it came
C7_Witness ==
    /\ Returned
    /\ cleaned_query = query
    /\ \E i, j \in 1..Len(filters) : IsPriceTerm(filters[i]) /\ IsBrandTerm(filters[j])
    /\ \E i \in 1..(Len(query) - 1) : query[i] = 32 /\ query[i + 1] = 32

\* C8: with no vocabulary (None) the predicate has no brand and no category
\* term and every price bound of the query is a term of it.
C8_NoVocabularyPriceStillActive ==
    (Returned /\ filterable_metadata.isNone) =>
        /\ \A i \in 1..Len(filters) : IsPriceTerm(filters[i])
        /\ PriceBoundsOf(query) \subseteq Range(filters)

\* C9: a vocabulary without a category list gives no category term, one
\* without a brand list gives no brand term.
C9_IndependentDegradation ==
    (Returned /\ ~filterable_metadata.isNone) =>
        /\ GetCategories(filterable_metadata) = <<>>
               => \A i \in 1..Len(filters) : ~IsCategoryTerm(filters[i])
        /\ GetBrands(filterable_metadata) = <<>>
               => \A i \in 1..Len(filters) : ~IsBrandTerm(filters[i])

\* C10: the routed set is a non-empty subset of {products, reviews}; it has
\* reviews exactly when a review keyword occurs or no keyword at all does,
\* and products exactly when a product keyword occurs or no keyword at all.
C10_RoutingByKeywords ==
    pc = "route_query" =>
        LET S == Range(target_collections)
            R == \E n \in 1..Len(review_keywords) : Contains(review_keywords[n], lower(query))
            P == \E n \in 1..Len(product_keywords) : Contains(product_keywords[n], lower(query))
        IN  /\ S # {}
            /\ S \subseteq {"products", "reviews"}
            /\ "reviews" \in S <=> (R \/ (~R /\ ~P))
            /\ "products" \in S <=> (P \/ (~R /\ ~P))

\* C10 witness: a review keyword and no product keyword route to reviews only
C10_Witness ==
    /\ pc = "route_query"
    /\ Contains(review_keywords[3], lower(query))
    /\ ~AnyContained(product_keywords, lower(query))
    /\ target_collections = <<"reviews">>

\* ------------------------------------------------------- claims on search

SearchReturned == pc = "search_returned"

Targets == Range(target_collections)

\* the lookup of the collection or its query fails
Fails(c) == store[c].status # "ok"

\* the store calls made for collection c
CallsFor(c) == { i \in DOMAIN store_calls : store_calls[i].collection = c }

\* what the store answers to a call
StoreReturned(call) ==
    QueryResult(Nearest(call.collection, store[call.collection].size,
                        call.query_embeddings[1], call.n_results, call.where))

\* C11: for each query of the evaluation set, the keys of the mapping search
\* returns are the expected_collections of that query.
C11_EvaluationQueriesRouted ==
    SearchReturned =>
        \A n \in DOMAIN EVALUATION_QUERIES :
            query = EVALUATION_QUERIES[n].query
                => Keys(results) = EVALUATION_QUERIES[n].expected_collections

\* C12: when a target collection fails, search does not raise once the loop
\* has started, the failed collection is mapped to an empty list and every
\* other target collection is mapped to what the store returned for it.
C12_FailureIsolated ==
    /\ pc = "search_raised" => done = {}
    /\ (SearchReturned /\ \E c \in Targets : Fails(c)) =>
          \A c \in Targets :
             IF Fails(c) THEN results[c] = EmptyList
             ELSE \E i \in CallsFor(c) : results[c] = StoreReturned(store_calls[i])

\* C12 witness: products answered with records, then reviews failed
C12_Witness ==
    /\ SearchReturned
    /\ target_collections = <<"products", "reviews">>
    /\ ~Fails("products")
    /\ Fails("reviews")
    /\ results["products"].items # <<>>
    /\ results["reviews"] = EmptyList

\* C13: search raises exactly when the provider call failed; then there is
\* no mapping and no store call, and a failed provider call always raises.
C13_RaisesIffEmbeddingFails ==
    /\ pc = "search_raised" =>
          /\ Len(embed_calls) = 1
          /\ query_embedding = NoVector
          /\ results = NoResults
          /\ store_calls = <<>>
    /\ (embed_calls # <<>> /\ query_embedding = NoVector) => pc = "search_raised"

\* C13 witness: the provider failed and search raised
C13_Witness ==
    /\ pc = "search_raised"
    /\ embed_calls # <<>>
    /\ \A c \in Collections : Fails(c)

\* C14: the keys of the returned mapping are exactly the collections the
\* raw query is routed to.
C14_KeysAreTargets ==
    SearchReturned =>
        /\ Keys(results) = Range(route_query(query))
        /\ Keys(results) # {}

\* C14 witness: one target, which failed, has an entry and products has none
C14_Witness ==
    /\ SearchReturned
    /\ Range(route_query(query)) = {"reviews"}
    /\ Fails("reviews")
    /\ results["reviews"] = EmptyList
    /\ results["products"] = Absent

\* C15: the text passed to the provider is never the empty string, and
\* search of the empty query raises only when the provider fails.
C15_NeverEmbedsEmptyString ==
    /\ \A i \in DOMAIN embed_calls : embed_calls[i] # <<>>
    /\ (embedding_query = <<>> /\ pc = "search_raised") => query_embedding = NoVector

\* C16: the provider is called once per search, with the embedding text;
\* every store call of the search carries the vector it returned and the
\* extracted predicate, passed as None exactly when the predicate is empty.
C16_OneVectorOnePredicate ==
    /\ pc \in {"search_loop", "search_returned", "search_raised"} =>
          /\ Len(embed_calls) = 1
          /\ embed_calls[1] = embedding_query
    /\ \A i \in DOMAIN store_calls :
          /\ store_calls[i].query_embeddings = <<Embed(embed_calls[1])>>
          /\ store_calls[i].where = IF where_filter = EmptyFilter THEN None
                                    ELSE where_filter
          /\ store_calls[i].where = None <=> where_filter = EmptyFilter

\* C16 witness: two store calls of one search without a predicate
C16_Witness ==
    /\ SearchReturned
    /\ Len(store_calls) = 2
    /\ where_filter = EmptyFilter
    /\ store_calls[1].query_embeddings = store_calls[2].query_embeddings

\* the entries of items are in non-decreasing distance order
NonDecreasing(items) ==
    \A i, j \in DOMAIN items : i < j => items[i].distance <= items[j].distance

\* C17: an entry that is not the empty list of a failure is the answer of
\* the one store call made for its collection, with n_results 5 for products
\* and 8 for reviews; it holds at most that many items, nearest first.
C17_AnswerWithinCap ==
    SearchReturned =>
        \A c \in Targets :
            results[c].kind = "QueryResult" =>
                LET cap == IF c = "products" THEN 5 ELSE 8
                IN  /\ Cardinality(CallsFor(c)) = 1
                    /\ \A i \in CallsFor(c) :
                          /\ store_calls[i].n_results = cap
                          /\ results[c] = StoreReturned(store_calls[i])
                    /\ Len(results[c].items) <= cap
                    /\ NonDecreasing(results[c].items)

\* C17 witness: both collections hold more records than their cap and the
\* entries hold 5 and 8 items
C17_Witness ==
    /\ SearchReturned
    /\ Len(results["products"].items) = 5
    /\ Len(results["reviews"].items) = 8
    /\ \A c \in Collections : store[c].size > 8

\* C18: a search of the query of the previous search of this manager, with
\* the store as it was, makes the same store calls (the same predicate among
\* their arguments) and returns the same mapping; during a search the
\* vocabulary and the store stay as the call found them.
C18_Idempotent ==
    /\ (previous.valid /\ previous.query = query) =>
          \A i \in DOMAIN store_calls :
              /\ i \in DOMAIN previous.store_calls
              /\ store_calls[i] = previous.store_calls[i]
    /\ (SearchReturned /\ previous.valid /\ previous.query = query) =>
          /\ results = previous.results
          /\ Keys(results) = Keys(previous.results)
          /\ store_calls = previous.store_calls
    /\ pc \notin {"idle"} =>
          /\ entry.filterable_metadata = filterable_metadata
          /\ entry.store = store

\* C18 witness: the second of two searches of a query with a predicate
\* returned records
C18_Witness ==
    /\ SearchReturned
    /\ previous.valid
    /\ previous.query = query
    /\ where_filter # EmptyFilter
    /\ \E c \in Targets : results[c].items # <<>>

\* C19: with the passes of the loop run in any order and interleaved, the
\* returned mapping is the one the loop in the order of target_collections
\* gives.
C19_OrderIndependent ==
    SearchReturned =>
        results = LoopResults(NoResults, target_collections, store,
                              query_embedding, where_filter)

\* C19 witness: the second target was queried before the first, and one of
\* the two queries failed
C19_Witness ==
    /\ SearchReturned
    /\ Len(target_collections) = 2
    /\ Len(store_calls) = 2
    /\ store_calls[1].collection = target_collections[2]
    /\ \E c \in Targets : Fails(c)
    /\ \E c \in Targets : results[c].items # <<>>

\* ---------------------------------------------------- claims on ingestion

\* text starts with prefix
StartsWith(t, prefix) ==
    Len(t) >= Len(prefix) /\ SubSeq(t, 1, Len(prefix)) = prefix

\* no two documents of docs have one id
DistinctIds(docs) ==
    \A i, j \in DOMAIN docs : i # j => docs[i].id # docs[j].id

\* C20: every product document has the id "product-" + model_number, every
\* review document an id "review-" + review_id, no product document shares
\* its id with a review document, and no two documents of one list share
\* an id.
C20_DocumentIdsUnique ==
    pc = "reviews_prepared" =>
        /\ \A i \in DOMAIN product_documents :
              product_documents[i].id
                  = <<112,114,111,100,117,99,116,45>>
                      \* product-
                       \o Format(Get(product_documents[i].metadata, "model_number"))
        /\ \A i \in DOMAIN review_documents :
              StartsWith(review_documents[i].id, <<114,101,118,105,101,119,45>>)
                  \* review-
        /\ \A i \in DOMAIN product_documents : \A j \in DOMAIN review_documents :
              product_documents[i].id # review_documents[j].id
        /\ DistinctIds(product_documents)
        /\ DistinctIds(review_documents)

\* the table entries of the priority categories having a multi-word synonym
\* that occurs in the lowercased text
PriorityMultiWordHits(t) ==
    { n \in 1..Len(CATEGORY_SYNONYMS) :
        /\ CATEGORY_SYNONYMS[n].category
               \in {ComputersAndLaptops, CamerasAndCamcorders, Smartphones}
        /\ \E k \in 1..Len(CATEGORY_SYNONYMS[n].synonyms) :
               /\ \E i \in 1..Len(CATEGORY_SYNONYMS[n].synonyms[k]) :
                      CATEGORY_SYNONYMS[n].synonyms[k][i] = 32
               /\ Contains(CATEGORY_SYNONYMS[n].synonyms[k], lower(t)) }

\* the table entries having a one-word synonym that occurs in the lowercased
\* text
SingleWordHits(t) ==
    { n \in 1..Len(CATEGORY_SYNONYMS) :
        \E k \in 1..Len(CATEGORY_SYNONYMS[n].synonyms) :
            /\ \A i \in 1..Len(CATEGORY_SYNONYMS[n].synonyms[k]) :
                   CATEGORY_SYNONYMS[n].synonyms[k][i] # 32
            /\ Contains(CATEGORY_SYNONYMS[n].synonyms[k], lower(t)) }

\* the category terms that the synonym search appended: the category terms of
\* the predicate after the one of the priority check, if any
SynonymTerms ==
    LET cs == SelectSeq(filters, IsCategoryTerm)
        p  == Len(priority_filters(filterable_metadata, cleaned_query))
    IN  SubSeq(cs, p + 1, Len(cs))

\* C25: the one-word synonyms decide the categories of the synonym search
\* only when no multi-word synonym of a priority category occurs in the
\* lowercased query; when one does, the categories selected are exactly the
\* priority categories with such a synonym, each once, and a category that
\* only a one-word synonym matches is not among them.
C25_MultiWordSynonymsFirst ==
    (Returned /\ Truthy(filterable_metadata)) =>
        LET hits == IF PriorityMultiWordHits(query) # {}
                    THEN PriorityMultiWordHits(query)
                    ELSE SingleWordHits(query)
        IN  /\ Len(SynonymTerms) = Cardinality(hits)
            /\ Range(SynonymTerms)
                   = { CategoryTerm(CATEGORY_SYNONYMS[n].category) : n \in hits }

\* C25 witness: a multi-word synonym of a priority category occurs, another
\* category is matched by a one-word synonym only, and the synonym search
\* selected the priority category alone
C25_Witness ==
    /\ Returned /\ Truthy(filterable_metadata)
    /\ PriorityMultiWordHits(query) # {}
    /\ SingleWordHits(query) \ PriorityMultiWordHits(query) # {}
    /\ Len(SynonymTerms) = 1

\* the metadata of the document has every key of ks
HasKeys(doc, ks) == \A k \in ks : doc.metadata[k] # Missing

\* C23: every product document has an id, a text and a metadata whose keys
\* include chunk_type, product_name, model_number, category, brand and
\* price; every review document has the same three fields and a metadata
\* whose keys include chunk_type, product_name, model_number, category,
\* brand and rating, whatever optional fields the input records omit.
C23_MetadataKeysPresent ==
    /\ \A i \in DOMAIN product_documents :
          /\ DOMAIN product_documents[i] = {"id", "text_for_embedding", "metadata"}
          /\ HasKeys(product_documents[i],
                 {"chunk_type", "product_name", "model_number", "category", "brand", "price"})
    /\ \A i \in DOMAIN review_documents :
          /\ DOMAIN review_documents[i] = {"id", "text_for_embedding", "metadata"}
          /\ HasKeys(review_documents[i],
                 {"chunk_type", "product_name", "model_number", "category", "brand", "rating"})

\* ------------------------------------------------------ claims on the chat

\* the text contains "unsafe" in some mix of upper and lower case
MentionsUnsafe(s) ==
    LET word == <<117,110,115,97,102,101>>
        \* unsafe
    IN  \E i \in 1..(Len(s) - 5) :
            \A k \in 1..6 : s[i + k - 1] \in {word[k], word[k] - 32}

\* the functions called so far by the call of respond in progress
CallsMade == [i \in DOMAIN calls |-> calls[i].fn]

\* C26: moderate_query returns False only when the moderation model answered
\* and its answer contains "unsafe" in any letter case; when the moderation
\* call raises or answers anything else it returns True, and respond then
\* goes on to retrieval and, unless that raises, to generation.
C26_ModerationFailsOpen ==
    pc \in {"respond_refuse", "respond_search", "respond_generate",
            "respond_returned", "respond_raised"} =>
        /\ ~is_safe <=> (moderation.kind = "answer" /\ MentionsUnsafe(moderation.response))
        /\ is_safe => pc # "respond_refuse"
        /\ (is_safe /\ pc \in {"respond_generate", "respond_raised"}) =>
               CallsMade = <<"moderate_query", "search">>
        /\ (is_safe /\ pc = "respond_returned") =>
               /\ CallsMade = <<"moderate_query", "search", "generate_response">>
               /\ calls[2].query = message
               /\ calls[3].query = message

\* C26 witness: the moderation call raised and respond returned after
\* retrieval and generation
C26_Witness ==
    /\ pc = "respond_returned"
    /\ moderation.kind = "raised"
    /\ CallsMade = <<"moderate_query", "search", "generate_response">>

\* C27: for a message that moderation flags as unsafe, respond calls neither
\* search nor generate_response, appends the fixed refusal to the history
\* and returns an empty document list; search and generate_response are
\* called only after moderate_query has returned safe.
C27_UnsafeSkipsRetrieval ==
    /\ \A i \in DOMAIN calls :
          calls[i].fn \in {"search", "generate_response"} =>
              /\ is_safe
              /\ i > 1
              /\ calls[1].fn = "moderate_query"
    /\ (pc \in {"respond_refuse", "respond_search", "respond_generate",
                "respond_returned", "respond_raised"} /\ ~is_safe) =>
          /\ CallsMade = <<"moderate_query">>
          /\ pc \in {"respond_refuse", "respond_returned"}
          /\ pc = "respond_returned" =>
                /\ chat_history = Append(chat_entry, <<message, Refusal>>)
                /\ docs_for_display = <<>>

\* C27 witness: respond returned for a message flagged as unsafe
C27_Witness ==
    /\ pc = "respond_returned"
    /\ ~is_safe
    /\ chat_history[Len(chat_history)] = <<message, Refusal>>

\* C28: a call of respond that returns has appended exactly one pair
\* (message, response) at the end of the history it was called with, the
\* response being the refusal, the generated answer or the generation-error
\* text, and the earlier pairs are unchanged and in order; until then, and
\* when the call raises, the history is the one it was called with.
C28_OnePairPerCall ==
    /\ pc = "respond_returned" =>
          /\ Len(chat_history) = Len(chat_entry) + 1
          /\ SubSeq(chat_history, 1, Len(chat_entry)) = chat_entry
          /\ chat_history[Len(chat_history)] = <<message, response>>
          /\ \/ ~is_safe /\ response = Refusal
             \/ is_safe /\ response = GenerationError
             \/ is_safe /\ ChatAnswer(response) \in ChatOutcomes
    /\ pc \in {"respond_refuse", "respond_search", "respond_generate", "respond_raised"} =>
          chat_history = chat_entry

\* C28 witness: a second call has returned with the generation-error text
\* after a first one was refused
C28_Witness ==
    /\ pc = "respond_returned"
    /\ Len(chat_history) = 2
    /\ chat_history[1][2] = Refusal
    /\ chat_history[2][2] = GenerationError

\* ------------------------------------------------- claims on the splitters

\* C24: every chunk returned by smart_split(text, chunk_size, chunk_overlap)
\* with chunk_size >= 1 and chunk_overlap >= 0 has at most chunk_size
\* characters.
C24_ChunksWithinSize ==
    (pc = "split_returned" /\ split_fn = "smart_split"
        /\ chunk_size >= 1 /\ chunk_overlap >= 0) =>
        \A i \in DOMAIN chunks : Len(chunks[i]) <= chunk_size

\* the call in progress is _character_split(text, ...) on a text that is not
\* empty
CharacterSplitRunning ==
    split_fn = "_character_split" /\ text # <<>> /\ chunk_size >= 1

\* C30: _character_split on a non-empty text with chunk_size >= 1 returns
\* if and only if chunk_overlap < chunk_size: `start` grows with each pass
\* of the loop exactly in that case, and otherwise stays at or below 0, where
\* the loop condition holds; and recursive_split returns for every text when
\* 0 <= chunk_overlap < chunk_size.
C30_CharacterSplitTerminates ==
    /\ [][(CharacterSplitRunning /\ pc = "character_split" /\ pc' = "character_split")
             => ((start' > start) <=> (chunk_overlap < chunk_size))]_vars
    /\ [](CharacterSplitRunning /\ chunk_overlap >= chunk_size
             => pc # "split_returned" /\ start <= 0 /\ start < Len(split_text))
    /\ (CharacterSplitRunning /\ chunk_overlap < chunk_size) ~> (pc = "split_returned")
    /\ (split_fn = "recursive_split" /\ 0 <= chunk_overlap /\ chunk_overlap < chunk_size)
           ~> (pc = "split_returned")

\* C30 witness: _character_split has returned several chunks cut with an
\* overlap smaller than chunk_size
C30_Witness ==
    /\ pc = "split_returned"
    /\ CharacterSplitRunning
    /\ 0 < chunk_overlap /\ chunk_overlap < chunk_size
    /\ Len(chunks) > 2

\* ------------------------------------------ claims on populate_collection

\* the records a list of documents is stored as, one per document, in the
\* order of the list
RecordsOf(docs) == [k \in DOMAIN docs |-> Record(docs[k])]

\* a call of populate_collection has returned to its caller
PopulateReturned ==
    pc \in {"products_populated", "reviews_populated", "populate_returned"}

\* C21: after run_etl_pipeline has returned, "products" and "reviews" both
\* exist and hold as many records as product_documents and review_documents
\* have documents; and when populate_collection(name, docs) has returned for
\* a non-empty docs, collection name holds one record for every document of
\* docs and no other.
C21_EveryDocumentStoredOnce ==
    /\ pc = "pipeline_returned"
          => /\ stored["products"].exists
             /\ Len(stored["products"].records) = Len(product_documents)
             /\ stored["reviews"].exists
             /\ Len(stored["reviews"].records) = Len(review_documents)
    /\ PopulateReturned /\ documents # <<>>
          => /\ stored[collection_name].exists
             /\ stored[collection_name].records = RecordsOf(documents)

\* the last collection.add of the call in progress raised
AddFailed == attempts # <<>> /\ attempts[Len(attempts)].raised

\* C29: when collection.add raises for the batch that starts at index i,
\* populate_collection has returned without raising, no batch was attempted
\* after that one, and the collection holds the records of the documents
\* before i, in their order, and nothing else: a strict prefix of the new
\* documents and nothing of its previous content.
C29_FailedBatchLeavesPrefix ==
    /\ \A k \in DOMAIN attempts : attempts[k].raised => k = Len(attempts)
    /\ AddFailed
          => /\ pc \notin {"add_batch", "populate_raised", "pipeline_raised"}
             /\ attempts[Len(attempts)].i < Len(documents)
             /\ stored[collection_name].exists
             /\ stored[collection_name].records
                    = RecordsOf(SubSeq(documents, 1, attempts[Len(attempts)].i))

\* the records `before`, in their order, are the first of the records `after`
StartsWithRecords(after, before) ==
    /\ Len(before) <= Len(after)
    /\ SubSeq(after, 1, Len(before)) = before

\* populate_collection has returned after adding every batch without an
\* error
PopulateCompleted ==
    /\ PopulateReturned
    /\ batch_start >= Len(documents)
    /\ \A k \in DOMAIN attempts : ~attempts[k].raised

\* C22: a step changes the records of a collection only by adding records
\* after the ones it holds, or by deleting the whole collection at the start
\* of a populate_collection of that collection; and when
\* populate_collection(name, docs) has completed for a non-empty docs,
\* collection name holds exactly the records of docs and every other
\* collection is as the call found it.
C22_RemovedOnlyByRebuild ==
    /\ [][\A c \in Collections :
             \/ StartsWithRecords(stored'[c].records, stored[c].records)
             \/ /\ pc = "populate_collection"
                /\ c = collection_name
                /\ stored'[c] = NoCollection]_vars
    /\ [](PopulateCompleted /\ documents # <<>>
             => /\ stored[collection_name].records = RecordsOf(documents)
                /\ \A c \in Collections \ {collection_name} :
                       stored[c] = stored_entry[c])

====
